---- MODULE Spec2Model ----
(***************************************************************************)
(* State-machine model of the email productivity agent backend:            *)
(*   - the prompt template registry (services/prompt_service.py) with the  *)
(*     request handlers cut at their store suspension points (each await   *)
(*     on execute / commit is one step that reads or writes the committed  *)
(*     store);                                                             *)
(*   - the in-memory session registry (api/endpoints.py);                  *)
(*   - the persistent verification / reset tokens (api/auth_endpoints.py,  *)
(*     models/user_models.py);                                             *)
(*   - the agent endpoint that resolves the active template and submits    *)
(*     to the language model (api/endpoints.py, process_with_agent).       *)
(***************************************************************************)
EXTENDS Integers, Sequences, FiniteSets, TLC

(***************************************************************************)
(* Bounds of the model.                                                    *)
(***************************************************************************)
MaxPrompts == 2
MaxVersion == 2
MaxRequests == 2
MaxLLMCalls == 1
MaxAgentPrompts == 1
MaxTokens == 2
MaxTicks == 2
MaxAuthTicks == 3
MaxTextLen == 3
MaxAccounts == 1
MaxSeedIds == 5
MaxMail == 2

(***************************************************************************)
(* Prompt template registry: data.                                         *)
(***************************************************************************)
Categories == {"categorization", "summary"}
Requests == 1..MaxRequests
PromptIds == 1..MaxPrompts
\* ids of the emails that get stored, and an id no stored email has
EmailIds == {"e1"}
AbsentEmailId == "e0"

\* An optional dictionary entry: <<>> when the key is absent, <<v>> when present.
Opt(S) == {<<>>} \cup {<<v>> : v \in S}
Present(o) == o # <<>>
\* dict.get(key, default)
Get(o, default) == IF o = <<>> THEN default ELSE o[1]

\* Column default of PromptTemplate.is_active (app/models/database.py is not
\* part of the sources; the seeded templates are the active ones, spec 8).
DefaultIsActive == TRUE
\* Column default of PromptTemplate.version.
DefaultVersion == 1

NoRequest == [op |-> "none"]

VARIABLES
    prompts,        \* committed prompt_templates table: id -> row
    nextPromptId,   \* ids are fresh uuids: never reused
    pc,             \* per request: the suspension point it is waiting at
    req,            \* per request: its arguments and session-local objects
    emails,         \* committed emails table: set of stored email ids
    llm_calls,      \* submissions of process_with_agent to the provider or mock
    out,            \* response of the handler step taken last
    offPath,        \* history: a template became active outside the
                    \*   deactivate-then-activate path
    moved           \* history: an update changed a template's category

(***************************************************************************)
(* Queries of the registry.                                                *)
(***************************************************************************)
\* select(PromptTemplate).where(category == c and is_active == True
\*                              [and id != exclude_id])
SelectActiveOf(table, c, exclude_id) ==
    {i \in DOMAIN table :
        /\ table[i].category = c
        /\ table[i].is_active
        /\ i # exclude_id}

SelectActive(c, exclude_id) == SelectActiveOf(prompts, c, exclude_id)

ActiveIn(c) == SelectActive(c, 0)

\* result.scalar_one_or_none(): no row -> None, one row -> the row,
\* several rows -> raises MultipleResultsFound.
ScalarOneOrNone(S) ==
    IF S = {} THEN [kind |-> "none", id |-> 0]
    ELSE IF Cardinality(S) = 1 THEN [kind |-> "one", id |-> CHOOSE i \in S : TRUE]
    ELSE [kind |-> "MultipleResultsFound", id |-> 0]

\* a lookup that forgets the is_active filter
get_active_prompt_AnyRow(c) ==
    ScalarOneOrNone({i \in DOMAIN prompts : prompts[i].category = c})

get_active_prompt(c) == ScalarOneOrNone(ActiveIn(c))

\* a handler starts in an idle one of the first lim request slots
CanStart(r, lim) == pc[r] = "idle" /\ r <= lim

Finish(r) == /\ pc' = [pc EXCEPT ![r] = "idle"]
             /\ req' = [req EXCEPT ![r] = NoRequest]

\* The flush of the rows in ids matches every row (no StaleDataError).
RowsExist(ids) == ids \subseteq DOMAIN prompts

Deactivated(ids) ==
    [i \in DOMAIN prompts |->
        IF i \in ids THEN [prompts[i] EXCEPT !.is_active = FALSE] ELSE prompts[i]]


(***************************************************************************)
(* HTTP-level outcome of a handler step.                                   *)
(***************************************************************************)
RespD(op, status, detail) == [op |-> op, status |-> status, detail |-> detail]
Resp(op, status) == RespD(op, status, "")
Pending(op) == Resp(op, 0)

\* Python truthiness of prompt_data.get('is_active', False)
Truthy(o) == Get(o, FALSE)

(***************************************************************************)
(* PromptService.create_prompt                                             *)
(***************************************************************************)
\* prompt = PromptTemplate(**prompt_data); db.add(prompt); await db.commit()
InsertPrompt(cat, act) ==
    LET stored == Get(act, DefaultIsActive)
        id == nextPromptId
    IN  /\ prompts' = [i \in DOMAIN prompts \cup {id} |->
                          IF i = id
                          THEN [category |-> cat, is_active |-> stored,
                                version |-> DefaultVersion]
                          ELSE prompts[i]]
        /\ nextPromptId' = nextPromptId + 1
        /\ offPath' = (offPath \/ (stored /\ ~Truthy(act)))
        /\ UNCHANGED moved

\* The handler up to its first suspension point.  With is_active truthy this
\* is the select of _deactivate_other_prompts(category); otherwise it is the
\* commit of the insert itself.
CreateBegin(r, lim, cat, act) ==
    /\ CanStart(r, lim)
    /\ nextPromptId + Cardinality({q \in Requests : pc[q] \in
            {"create_deactivate", "create_insert"}}) <= MaxPrompts
    /\ IF Truthy(act)
       THEN /\ pc' = [pc EXCEPT ![r] = "create_deactivate"]
            /\ req' = [req EXCEPT ![r] =
                          [op |-> "create", category |-> cat, is_active |-> act,
                           peers |-> SelectActive(cat, 0)]]
            /\ out' = Pending("create_prompt")
            /\ UNCHANGED <<prompts, nextPromptId, offPath, moved>>
       ELSE /\ InsertPrompt(cat, act)
            /\ out' = Resp("create_prompt", 200)
            /\ UNCHANGED <<pc, req>>
    /\ UNCHANGED <<emails, llm_calls>>

\* for prompt in prompts: prompt.is_active = False; await self.db.commit()
CreateDeactivate(r) ==
    /\ pc[r] = "create_deactivate"
    /\ IF RowsExist(req[r].peers)
       THEN /\ prompts' = Deactivated(req[r].peers)
            /\ pc' = [pc EXCEPT ![r] = "create_insert"]
            /\ out' = Pending("create_prompt")
            /\ UNCHANGED req
       ELSE \* a peer row was deleted meanwhile: the flush raises StaleDataError
            /\ Finish(r)
            /\ out' = Resp("create_prompt", 500)
            /\ UNCHANGED prompts
    /\ UNCHANGED <<nextPromptId, emails, llm_calls, offPath, moved>>

CreateInsert(r) ==
    /\ pc[r] = "create_insert"
    /\ InsertPrompt(req[r].category, req[r].is_active)
    /\ Finish(r)
    /\ out' = Resp("create_prompt", 200)
    /\ UNCHANGED <<emails, llm_calls>>

(***************************************************************************)
(* PromptService.update_prompt                                             *)
(* The session objects keep the attribute values loaded by the first       *)
(* select (sessions are created with expire_on_commit=False, as an async   *)
(* session requires for the attribute reads after the inner commit).       *)
(***************************************************************************)
\* a condition that forgets the template's own flag
Flips_IgnoresLoaded(act, loaded) == Truthy(act)

\* prompt_data.get('is_active', False) and not prompt.is_active
Flips(act, loaded) == Truthy(act) /\ ~loaded.is_active

UpdateBegin(r, lim, id, act, cat) ==
    /\ CanStart(r, lim)
    /\ IF id \notin DOMAIN prompts
       THEN /\ out' = Resp("update_prompt", 404)
            /\ UNCHANGED <<pc, req>>
       ELSE /\ prompts[id].version < MaxVersion
            /\ pc' = [pc EXCEPT ![r] =
                         IF Flips(act, prompts[id]) THEN "update_select_peers"
                         ELSE "update_commit"]
            /\ req' = [req EXCEPT ![r] =
                          [op |-> "update", id |-> id, is_active |-> act,
                           category |-> cat, loaded |-> prompts[id],
                           peers |-> {}]]
            /\ out' = Pending("update_prompt")
    /\ UNCHANGED <<prompts, nextPromptId, emails, llm_calls, offPath, moved>>

\* _deactivate_other_prompts(prompt.category, exclude_id=prompt_id): the select
UpdateSelectPeers(r) ==
    /\ pc[r] = "update_select_peers"
    /\ req' = [req EXCEPT ![r].peers =
                  SelectActive(req[r].loaded.category, req[r].id)]
    /\ pc' = [pc EXCEPT ![r] = "update_deactivate"]
    /\ out' = Pending("update_prompt")
    /\ UNCHANGED <<prompts, nextPromptId, emails, llm_calls, offPath, moved>>

\* _deactivate_other_prompts: the commit
UpdateDeactivate(r) ==
    /\ pc[r] = "update_deactivate"
    /\ IF RowsExist(req[r].peers)
       THEN /\ prompts' = Deactivated(req[r].peers)
            /\ pc' = [pc EXCEPT ![r] = "update_commit"]
            /\ out' = Pending("update_prompt")
            /\ UNCHANGED req
       ELSE \* StaleDataError: except -> rollback -> raise
            /\ Finish(r)
            /\ out' = Resp("update_prompt", 500)
            /\ UNCHANGED prompts
    /\ UNCHANGED <<nextPromptId, emails, llm_calls, offPath, moved>>

\* setattr for every key; prompt.version += 1; await self.db.commit().
\* The UPDATE carries the attributes whose value differs from the loaded one.
UpdatedRow(cur, loaded, act, cat) ==
    [category  |-> IF Present(cat) /\ cat[1] # loaded.category
                   THEN cat[1] ELSE cur.category,
     is_active |-> IF Present(act) /\ act[1] # loaded.is_active
                   THEN act[1] ELSE cur.is_active,
     version   |-> loaded.version + 1]

UpdateCommit(r) ==
    /\ pc[r] = "update_commit"
    /\ IF req[r].id \notin DOMAIN prompts
       THEN \* the row was deleted meanwhile: StaleDataError, rollback, raise
            /\ out' = Resp("update_prompt", 500)
            /\ UNCHANGED <<prompts, offPath, moved>>
       ELSE LET id == req[r].id
                cur == prompts[id]
                new == UpdatedRow(cur, req[r].loaded, req[r].is_active,
                                  req[r].category)
                flip == Flips(req[r].is_active, req[r].loaded)
                recat == new.category # cur.category
            IN  /\ prompts' = [prompts EXCEPT ![id] = new]
                /\ moved' = (moved \/ recat)
                /\ offPath' = (offPath \/
                       (new.is_active /\ ~flip /\ (recat \/ ~cur.is_active)))
                /\ out' = Resp("update_prompt", 200)
    /\ Finish(r)
    /\ UNCHANGED <<nextPromptId, emails, llm_calls>>

\* update_prompt(id, {version: ver}): 'version' is an attribute of the
\* template, so setattr stores the client's value before `prompt.version += 1`.
\* The update carries no is_active: it has no inner commit and is one step.
VersionInputs == 0..(MaxVersion - 1)
UpdateWithVersion(r, lim, id, ver) ==
    /\ CanStart(r, lim)
    /\ IF id \notin DOMAIN prompts
       THEN /\ out' = Resp("update_prompt", 404)
            /\ UNCHANGED prompts
       ELSE /\ prompts' = [prompts EXCEPT ![id].version = ver + 1]
            /\ out' = Resp("update_prompt", 200)
    /\ UNCHANGED <<nextPromptId, pc, req, emails, llm_calls, offPath, moved>>

(***************************************************************************)
(* PromptService.delete_prompt                                             *)
(***************************************************************************)
DeleteBegin(r, lim, id) ==
    /\ CanStart(r, lim)
    /\ IF id \notin DOMAIN prompts
       THEN /\ out' = Resp("delete_prompt", 404)
            /\ UNCHANGED <<pc, req>>
       ELSE /\ pc' = [pc EXCEPT ![r] = "delete_commit"]
            /\ req' = [req EXCEPT ![r] = [op |-> "delete", id |-> id]]
            /\ out' = Pending("delete_prompt")
    /\ UNCHANGED <<prompts, nextPromptId, emails, llm_calls, offPath, moved>>

\* await self.db.delete(prompt); await self.db.commit()
DeleteCommit(r) ==
    /\ pc[r] = "delete_commit"
    /\ prompts' = [i \in DOMAIN prompts \ {req[r].id} |-> prompts[i]]
    /\ Finish(r)
    /\ out' = Resp("delete_prompt", 200)
    /\ UNCHANGED <<nextPromptId, emails, llm_calls, offPath, moved>>


(***************************************************************************)
(* PromptService.initialize_default_prompts (seeding at startup).          *)
(* Templates are looked up by their name; the name column is kept in a     *)
(* variable of its own, next to the rows of prompts.                       *)
(***************************************************************************)
SeedIds == 1..MaxSeedIds

\* default_prompts, in the order of the loop
DefaultPrompts ==
    <<[name |-> "Default Categorization", category |-> "categorization"],
      [name |-> "Action Item Extraction", category |-> "action_extraction"],
      [name |-> "Smart Summary", category |-> "summary"],
      [name |-> "Professional Reply", category |-> "reply_draft"]>>

\* names a client gives to its templates: one of its own, and a seed's name
ClientNames == {"Custom", "Default Categorization"}

VARIABLES
    names   \* prompt_templates.name: id -> name

seedVars == <<names>>

\* select(PromptTemplate).where(PromptTemplate.name == name)
SelectByName(name) == {i \in DOMAIN names : names[i] = name}

\* a check that looks for a template of the seed's category
SeedMissing_ByCategory(k) ==
    {i \in DOMAIN prompts : prompts[i].category = DefaultPrompts[k].category} = {}

\* `if not existing`, for the k-th seed
SeedMissing(k) == SelectByName(DefaultPrompts[k].name) = {}

\* result.scalar_one_or_none() raises for a name that several templates have
SeedLookupRaises ==
    \E k \in DOMAIN DefaultPrompts :
        Cardinality(SelectByName(DefaultPrompts[k].name)) > 1

MissingSeeds == {k \in DOMAIN DefaultPrompts : SeedMissing(k)}

\* the id the k-th seed gets: ids are handed out in the order of the loop
SeedId(k) == nextPromptId + Cardinality({m \in MissingSeeds : m < k})

\* the seed stored under a new id
SeedOf(id) == CHOOSE k \in MissingSeeds : SeedId(k) = id

\* one run of initialize_default_prompts; a lookup that raises leaves the
\* run without a commit (lifespan logs the error and goes on)
Seed ==
    /\ nextPromptId + Cardinality(MissingSeeds) <= MaxSeedIds + 1
    /\ IF SeedLookupRaises
       THEN /\ out' = Resp("initialize_default_prompts", 500)
            /\ UNCHANGED <<prompts, names, nextPromptId, offPath>>
       ELSE LET new == {SeedId(k) : k \in MissingSeeds}
            IN  /\ prompts' = [i \in DOMAIN prompts \cup new |->
                                  IF i \in new
                                  THEN [category |-> DefaultPrompts[SeedOf(i)].category,
                                        is_active |-> DefaultIsActive,
                                        version |-> DefaultVersion]
                                  ELSE prompts[i]]
                /\ names' = [i \in DOMAIN names \cup new |->
                                IF i \in new THEN DefaultPrompts[SeedOf(i)].name
                                ELSE names[i]]
                /\ nextPromptId' = nextPromptId + Cardinality(new)
                /\ offPath' = (offPath \/ (new # {} /\ DefaultIsActive))
                /\ out' = Resp("initialize_default_prompts", 200)
    /\ UNCHANGED <<pc, req, emails, llm_calls, moved>>

\* create_prompt({name, category, is_active: False})
CreateNamed(name, cat) ==
    /\ nextPromptId <= MaxSeedIds
    /\ InsertPrompt(cat, <<FALSE>>)
    /\ names' = [i \in DOMAIN names \cup {nextPromptId} |->
                    IF i = nextPromptId THEN name ELSE names[i]]
    /\ out' = Resp("create_prompt", 200)
    /\ UNCHANGED <<pc, req, emails, llm_calls>>

\* update_prompt(id, {name})
RenamePrompt(id, name) ==
    /\ IF id \notin DOMAIN prompts
       THEN /\ out' = Resp("update_prompt", 404)
            /\ UNCHANGED <<prompts, names>>
       ELSE /\ prompts[id].version < MaxVersion
            /\ prompts' = [prompts EXCEPT ![id] =
                              UpdatedRow(prompts[id], prompts[id], <<>>, <<>>)]
            /\ names' = [names EXCEPT ![id] = name]
            /\ out' = Resp("update_prompt", 200)
    /\ UNCHANGED <<nextPromptId, pc, req, emails, llm_calls, offPath, moved>>

\* delete_prompt(id)
DeleteNamed(id) ==
    /\ IF id \notin DOMAIN prompts
       THEN /\ out' = Resp("delete_prompt", 404)
            /\ UNCHANGED <<prompts, names>>
       ELSE /\ prompts' = [i \in DOMAIN prompts \ {id} |-> prompts[i]]
            /\ names' = [i \in DOMAIN names \ {id} |-> names[i]]
            /\ out' = Resp("delete_prompt", 200)
    /\ UNCHANGED <<nextPromptId, pc, req, emails, llm_calls, offPath, moved>>

InitSeed == names = <<>>

NextSeed ==
    \/ Seed
    \/ \E name \in ClientNames : CreateNamed(name, "summary")
    \/ \E id \in SeedIds \ SelectByName("Custom") : RenamePrompt(id, "Custom")
    \/ \E id \in SeedIds : DeleteNamed(id)

(***************************************************************************)
(* Emails table (the rows process_single_email / load_mock_emails insert). *)
(***************************************************************************)
StoreEmail(e) ==
    /\ e \notin emails
    /\ emails' = emails \cup {e}
    /\ out' = Resp("store_email", 200)
    /\ UNCHANGED <<prompts, nextPromptId, pc, req, llm_calls, offPath, moved>>

(***************************************************************************)
(* POST /agent/process (process_with_agent)                                *)
(***************************************************************************)
PromptTypes == Categories
\* request.get('custom_prompt'): absent, the empty string, or a text
CustomPrompts == Opt({"", "Summarize this"})
\* `if custom_prompt:`
TruthyText(o) == Present(o) /\ o[1] # ""

AgentRequests == {q \in Requests : pc[q] \in {"agent_resolve", "agent_submit"}}

\* email = await email_service.get_email_by_id(email_id)
AgentBegin(r, email_id, prompt_type, custom) ==
    /\ pc[r] = "idle"
    /\ llm_calls + Cardinality(AgentRequests) < MaxLLMCalls
    /\ IF email_id \notin emails
       THEN /\ out' = RespD("process_with_agent", 404, "Email not found")
            /\ UNCHANGED <<pc, req>>
       ELSE /\ pc' = [pc EXCEPT ![r] =
                         IF TruthyText(custom) THEN "agent_submit"
                         ELSE "agent_resolve"]
            /\ req' = [req EXCEPT ![r] =
                          [op |-> "agent", prompt_type |-> prompt_type,
                           custom |-> custom, template |-> 0]]
            /\ out' = Pending("process_with_agent")
    /\ UNCHANGED <<prompts, nextPromptId, emails, llm_calls, offPath, moved>>

\* prompt = await prompt_service.get_active_prompt(prompt_type)
AgentResolve(r) ==
    /\ pc[r] = "agent_resolve"
    /\ LET found == get_active_prompt(req[r].prompt_type)
       IN  IF found.kind = "one"
           THEN /\ pc' = [pc EXCEPT ![r] = "agent_submit"]
                /\ req' = [req EXCEPT ![r].template = found.id]
                /\ out' = Pending("process_with_agent")
           ELSE /\ Finish(r)
                /\ out' = IF found.kind = "none"
                          THEN RespD("process_with_agent", 404,
                                     "No active prompt found")
                          ELSE RespD("process_with_agent", 500, found.kind)
    /\ UNCHANGED <<prompts, nextPromptId, emails, llm_calls, offPath, moved>>

\* result = await llm_service.process_prompt(prompt_text, email_content)
AgentSubmit(r) ==
    /\ pc[r] = "agent_submit"
    /\ llm_calls' = llm_calls + 1
    /\ Finish(r)
    /\ out' = Resp("process_with_agent", 200)
    /\ UNCHANGED <<prompts, nextPromptId, emails, offPath, moved>>

(***************************************************************************)
(* The emails table with its owners (services/email_service.py).           *)
(***************************************************************************)
\* Email.user_id: a user's id, None, or the string a caller passed
UserOwner(user_id) == [user |-> user_id]
NoOwner == [none |-> TRUE]
PathOwner == [str |-> "data/mock_inbox.json"]

VARIABLES
    mail,       \* rows of emails: [id, user_id, category, words, synced_for]
                \*   (id stands for the timestamp; words: the lower-cased
                \*   words of subject, sender and body; synced_for, history:
                \*   the user whose sync stored the row, 0 for other rows)
    nextMailId  \* the id the next row gets

mailVars == <<mail, nextMailId>>

\* process_single_email(email_data, user_id): the row it commits
MailRow(owner, synced_for) ==
    [id |-> nextMailId, user_id |-> owner, category |-> "Work",
     words |-> {"hi"}, synced_for |-> synced_for]

\* select(Email).order_by(Email.timestamp.desc())
RECURSIVE ByTimestampDesc(_)
ByTimestampDesc(S) ==
    IF S = {} THEN <<>>
    ELSE LET m == CHOOSE x \in S : \A y \in S : y.id <= x.id
         IN  <<m>> \o ByTimestampDesc(S \ {m})

\* .limit(limit).offset(offset)
Page(rows, limit, offset) ==
    SubSeq(rows, offset + 1,
           IF offset + limit < Len(rows) THEN offset + limit ELSE Len(rows))

\* EmailService.get_all_emails(limit, offset)
get_all_emails(limit, offset) == Page(ByTimestampDesc(mail), limit, offset)

\* EmailService.get_user_emails(user_id, limit, offset)
get_user_emails(owner, limit, offset) ==
    Page(ByTimestampDesc({m \in mail : m.user_id = owner}), limit, offset)

\* list.sort(key=timestamp): ascending
Reverse(rows) == [i \in DOMAIN rows |-> rows[Len(rows) + 1 - i]]

\* the filters and the sort of get_user_inbox
InboxFilter(rows, category, search, sort_by) ==
    LET InCategory(m) ==
            (Present(category) /\ category[1] # "all") => m.category = category[1]
        Found(m) == Present(search) => search[1] \in m.words
        Kept(m) == InCategory(m) /\ Found(m)
        kept == SelectSeq(rows, Kept)
    IN  IF sort_by = "oldest" THEN Reverse(kept) ELSE kept

\* the query parameters of get_user_inbox
InboxCategories == Opt({"all", "Work", "Spam"})
InboxSearches == Opt({"hi"})
InboxSorts == {"newest", "oldest"}
InboxPages == {[limit |-> 50, offset |-> 0], [limit |-> 1, offset |-> 1]}

(***************************************************************************)
(* In-memory session registry (api/endpoints.py).                          *)
(***************************************************************************)
\* seconds a session stays valid
SessionTTL == 86400

UserEmails == {"a@x.com", "b@x.com"}
Passwords == {"abc", "secret1"}
Tokens == 1..MaxTokens

\* a string that is no session token (uuid4 never draws it)
UnknownToken == 0
\* Authorization header: absent, "Bearer <token>", or the bare "<token>"
NoHeader == [scheme |-> "none", credentials |-> 0]
HeadersOf(T) == {NoHeader} \cup
    {[scheme |-> s, credentials |-> t] : s \in {"Bearer ", ""}, t \in T}
\* authorization.startswith("Bearer ")
StartsWithBearer(h) == h.scheme = "Bearer "
\* token = authorization[7:] if it starts with "Bearer " else authorization
ExtractToken(h) == h.credentials

NoSession == [user_id |-> 0, created_at |-> 0]

VARIABLES
    users_db,      \* email -> user record
    sessions_db,   \* token -> [user_id, created_at]
    now,           \* datetime.utcnow(), in seconds
    ticks,         \* number of clock advances so far
    nextToken,     \* uuid4 tokens are fresh: never drawn twice
    issued,        \* history: token -> user id given to create_access_token
    logouts        \* history: the "Bearer <token>" headers, naming an
                   \*   issued token, that logout has been completed with

sessVars == <<users_db, sessions_db, now, ticks, nextToken, issued, logouts>>

\* the tokens a client can present: those handed out so far, and a made-up one
PresentableTokens == DOMAIN issued \cup {UnknownToken}
Headers == HeadersOf(PresentableTokens)
regVars == <<prompts, nextPromptId, emails, llm_calls, offPath, moved>>

\* pwd_context.hash / pwd_context.verify (argon2)
hash_password(p) == <<"argon2", p>>
verify_password(p, h) == h = hash_password(p)

\* sessions_db[token] = {"user_id": user_id, "created_at": utcnow()}
create_access_token(user_id) ==
    /\ sessions_db' = [t \in DOMAIN sessions_db \cup {nextToken} |->
                          IF t = nextToken
                          THEN [user_id |-> user_id, created_at |-> now]
                          ELSE sessions_db[t]]
    /\ issued' = [t \in DOMAIN issued \cup {nextToken} |->
                     IF t = nextToken THEN user_id ELSE issued[t]]
    /\ nextToken' = nextToken + 1

\* verify_token on a registry db at the instant clock
LookupSession(db, token, clock) ==
    IF token \in DOMAIN db /\ clock - db[token].created_at < SessionTTL
    THEN db[token]
    ELSE NoSession

\* a lookup that still accepts a session of exactly SessionTTL seconds
verify_token_Inclusive(token) ==
    IF token \in DOMAIN sessions_db
       /\ now - sessions_db[token].created_at <= SessionTTL
    THEN sessions_db[token]
    ELSE NoSession

\* the session of a valid token, None (NoSession) otherwise
verify_token(token) == LookupSession(sessions_db, token, now)

SResp(op, status, token, user) ==
    [op |-> op, status |-> status, detail |-> "", token |-> token, user |-> user]

\* POST /auth/register
Register(email, password) ==
    /\ nextToken <= MaxTokens
    /\ IF email \in DOMAIN users_db \/ Len(password) < 6
       THEN /\ out' = SResp("register", 400, 0, 0)
            /\ UNCHANGED <<users_db, sessions_db, issued, nextToken>>
       ELSE LET user_id == Cardinality(DOMAIN users_db) + 1
            IN  /\ users_db' = [e \in DOMAIN users_db \cup {email} |->
                                  IF e = email
                                  THEN [id |-> user_id,
                                        password_hash |-> hash_password(password)]
                                  ELSE users_db[e]]
                /\ create_access_token(user_id)
                /\ out' = SResp("register", 200, nextToken, user_id)
    /\ UNCHANGED <<now, ticks, logouts, pc, req, regVars>>

\* a login that hands out a token without recording its session
Login_NoSession(email, password) ==
    /\ nextToken <= MaxTokens
    /\ IF email \notin DOMAIN users_db
          \/ ~verify_password(password, users_db[email].password_hash)
       THEN /\ out' = SResp("login", 401, 0, 0)
            /\ UNCHANGED <<sessions_db, issued, nextToken>>
       ELSE /\ issued' = [t \in DOMAIN issued \cup {nextToken} |->
                            IF t = nextToken THEN users_db[email].id ELSE issued[t]]
            /\ nextToken' = nextToken + 1
            /\ out' = SResp("login", 200, nextToken, users_db[email].id)
            /\ UNCHANGED sessions_db
    /\ UNCHANGED <<users_db, now, ticks, logouts, pc, req, regVars>>

\* POST /auth/login
Login(email, password) ==
    /\ nextToken <= MaxTokens
    /\ IF email \notin DOMAIN users_db
          \/ ~verify_password(password, users_db[email].password_hash)
       THEN /\ out' = SResp("login", 401, 0, 0)
            /\ UNCHANGED <<sessions_db, issued, nextToken>>
       ELSE /\ create_access_token(users_db[email].id)
            /\ out' = SResp("login", 200, nextToken, users_db[email].id)
    /\ UNCHANGED <<users_db, now, ticks, logouts, pc, req, regVars>>

\* what the history keeps of a completed logout: its header, when it is of
\* the form "Bearer <token>" and names a token that was issued
LoggedOut(h) ==
    IF h # NoHeader /\ StartsWithBearer(h) /\ h.credentials \in DOMAIN issued
    THEN {h}
    ELSE {}

\* the answer of logout, with the token its header carried
LogoutResp(h) ==
    SResp("logout", 200, IF h = NoHeader THEN UnknownToken ELSE ExtractToken(h), 0)

\* a logout that answers without removing the session
Logout_KeepsSession(h) ==
    /\ logouts' = logouts \cup LoggedOut(h)
    /\ out' = LogoutResp(h)
    /\ UNCHANGED <<users_db, sessions_db, now, ticks, nextToken, issued,
                   pc, req, regVars>>

\* a logout that ends every session of the token's user
Logout_AllOfUser(h) ==
    /\ sessions_db' =
           IF h # NoHeader /\ StartsWithBearer(h)
              /\ h.credentials \in DOMAIN sessions_db
           THEN [t \in {u \in DOMAIN sessions_db :
                           sessions_db[u].user_id
                               # sessions_db[h.credentials].user_id} |->
                    sessions_db[t]]
           ELSE sessions_db
    /\ logouts' = logouts \cup LoggedOut(h)
    /\ out' = LogoutResp(h)
    /\ UNCHANGED <<users_db, now, ticks, nextToken, issued, pc, req, regVars>>

\* POST /auth/logout
Logout(h) ==
    /\ sessions_db' =
           IF h # NoHeader /\ StartsWithBearer(h)
              /\ h.credentials \in DOMAIN sessions_db
           THEN [t \in DOMAIN sessions_db \ {h.credentials} |-> sessions_db[t]]
           ELSE sessions_db
    /\ logouts' = logouts \cup LoggedOut(h)
    /\ out' = LogoutResp(h)
    /\ UNCHANGED <<users_db, now, ticks, nextToken, issued, pc, req, regVars>>

\* a refresh that replaces the presented token by the new one
RefreshToken_Rotates(h) ==
    /\ nextToken <= MaxTokens
    /\ IF h = NoHeader \/ verify_token(ExtractToken(h)) = NoSession
       THEN /\ out' = SResp("refresh", 401, 0, 0)
            /\ UNCHANGED <<sessions_db, issued, nextToken>>
       ELSE /\ sessions_db' =
                   [t \in (DOMAIN sessions_db \ {ExtractToken(h)}) \cup {nextToken} |->
                       IF t = nextToken
                       THEN [user_id |-> verify_token(ExtractToken(h)).user_id,
                             created_at |-> now]
                       ELSE sessions_db[t]]
            /\ issued' = [t \in DOMAIN issued \cup {nextToken} |->
                             IF t = nextToken
                             THEN verify_token(ExtractToken(h)).user_id
                             ELSE issued[t]]
            /\ nextToken' = nextToken + 1
            /\ out' = SResp("refresh", 200, nextToken,
                            verify_token(ExtractToken(h)).user_id)
    /\ UNCHANGED <<users_db, now, ticks, logouts, pc, req, regVars>>

\* POST /auth/refresh
RefreshToken(h) ==
    /\ nextToken <= MaxTokens
    /\ IF h = NoHeader \/ verify_token(ExtractToken(h)) = NoSession
       THEN /\ out' = SResp("refresh", 401, 0, 0)
            /\ UNCHANGED <<sessions_db, issued, nextToken>>
       ELSE /\ create_access_token(verify_token(ExtractToken(h)).user_id)
            /\ out' = SResp("refresh", 200, nextToken,
                            verify_token(ExtractToken(h)).user_id)
    /\ UNCHANGED <<users_db, now, ticks, logouts, pc, req, regVars>>

\* a lookup that drops the entry it finds expired
VerifyToken_Evicts(token) ==
    /\ out' = SResp("verify_token", 0, token, verify_token(token).user_id)
    /\ sessions_db' =
           IF token \in DOMAIN sessions_db /\ verify_token(token) = NoSession
           THEN [t \in DOMAIN sessions_db \ {token} |-> sessions_db[t]]
           ELSE sessions_db
    /\ UNCHANGED <<users_db, now, ticks, nextToken, issued, logouts, pc, req,
                   regVars>>

\* a call of verify_token(token), as the protected handlers make it
VerifyToken(token) ==
    /\ out' = SResp("verify_token", 0, token, verify_token(token).user_id)
    /\ UNCHANGED <<sessVars, pc, req, regVars>>

\* GET /emails/my-inbox up to its suspension point: the header check, the
\* token lookup, then await email_service.get_all_emails(...)
InboxBegin(r, h) ==
    /\ pc[r] = "idle"
    /\ IF h = NoHeader \/ verify_token(ExtractToken(h)) = NoSession
       THEN /\ out' = SResp("my_inbox", 401, 0, 0)
            /\ UNCHANGED <<pc, req>>
       ELSE /\ pc' = [pc EXCEPT ![r] = "inbox_query"]
            /\ req' = [req EXCEPT ![r] =
                          [op |-> "inbox", token |-> ExtractToken(h),
                           session |-> verify_token(ExtractToken(h))]]
            /\ out' = SResp("my_inbox", 0, ExtractToken(h),
                            verify_token(ExtractToken(h)).user_id)
    /\ UNCHANGED <<sessVars, regVars>>

\* the answer of my-inbox: the list it returns
InboxResp(token, user, result) ==
    [op |-> "my_inbox", status |-> 200, detail |-> "", token |-> token,
     user |-> user, result |-> result]

\* the query returns; the handler filters, sorts and answers
InboxReturn(r, category, search, sort_by, page) ==
    /\ pc[r] = "inbox_query"
    /\ out' = InboxResp(req[r].token, req[r].session.user_id,
                        InboxFilter(get_all_emails(page.limit, page.offset),
                                    category, search, sort_by))
    /\ Finish(r)
    /\ UNCHANGED <<sessVars, regVars>>

InboxFinish(r) ==
    \E category \in InboxCategories, search \in InboxSearches,
       sort_by \in InboxSorts, page \in InboxPages :
        InboxReturn(r, category, search, sort_by, page)

\* time passes
SessionClockSteps == {1, SessionTTL - 1}
TickSession(d) ==
    /\ ticks < MaxTicks
    /\ now' = now + d
    /\ ticks' = ticks + 1
    /\ out' = Resp("tick", 0)
    /\ UNCHANGED <<users_db, sessions_db, nextToken, issued, logouts, pc, req,
                   regVars>>

InitSession ==
    /\ users_db = <<>>
    /\ sessions_db = <<>>
    /\ now = 0
    /\ ticks = 0
    /\ nextToken = 1
    /\ issued = <<>>
    /\ logouts = {}

NextSession ==
    \/ \E e \in UserEmails, p \in Passwords : Register(e, p)
    \/ \E e \in UserEmails, p \in Passwords : Login(e, p)
    \/ \E h \in Headers : Logout(h)
    \/ \E h \in Headers : RefreshToken(h)
    \/ \E t \in PresentableTokens : VerifyToken(t)
    \/ \E h \in Headers : InboxBegin(1, h)
    \/ InboxFinish(1)
    \/ \E d \in SessionClockSteps : TickSession(d)

(***************************************************************************)
(* Token-protected operations (api/endpoints.py,                           *)
(* api/user_email_endpoints.py).  Each handler checks its header once, at  *)
(* its start, and is taken as a single step.  A sync fetches one email.    *)
(***************************************************************************)
AccountIds == 1..MaxAccounts

VARIABLES
    accounts,       \* rows of user_email_accounts: [id, user_id, provider]
    nextAccountId,  \* the id the next row gets
    synced          \* ids of the rows whose last_sync has been written

acctVars == <<accounts, nextAccountId, synced>>

\* the answer of a protected operation: the header it was called with and
\* whether the call reached the email provider
PResp(op, status, h, provider) ==
    [op |-> op, status |-> status, detail |-> "", header |-> h,
     provider |-> provider]

\* "if not authorization" or "if not session"
Unauthenticated(h) == h = NoHeader \/ verify_token(ExtractToken(h)) = NoSession

\* session["user_id"] of the header's token
SessionUser(h) == verify_token(ExtractToken(h)).user_id

\* GET /prompts/my
GetUserPrompts(h) ==
    /\ out' = PResp("prompts_my", IF Unauthenticated(h) THEN 401 ELSE 200, h, FALSE)
    /\ UNCHANGED <<sessVars, regVars, pc, req, acctVars>>

\* POST /emails/sync
SyncUserEmails(h) ==
    /\ out' = PResp("emails_sync", IF Unauthenticated(h) THEN 401 ELSE 200, h, FALSE)
    /\ UNCHANGED <<sessVars, regVars, pc, req, acctVars>>

\* GET /email-accounts
GetUserEmailAccountsSimple(h) ==
    /\ out' = PResp("accounts_list_simple",
                    IF Unauthenticated(h) THEN 401 ELSE 200, h, FALSE)
    /\ UNCHANGED <<sessVars, regVars, pc, req, acctVars>>

\* db.add(UserEmailAccount(user_id=..., provider=...)); db.commit()
AddAccount(user_id, provider) ==
    /\ accounts' = accounts \cup
           {[id |-> nextAccountId, user_id |-> user_id, provider |-> provider]}
    /\ nextAccountId' = nextAccountId + 1
    /\ UNCHANGED synced

\* POST /email-accounts/gmail: the missing header is refused before the try
\* block; every HTTPException raised inside it is caught by the handler's
\* "except Exception" and answered as 500
ConnectGmailSimple(h, success) ==
    /\ IF h = NoHeader
       THEN /\ out' = PResp("connect_gmail_simple", 401, h, FALSE)
            /\ UNCHANGED acctVars
       ELSE IF verify_token(ExtractToken(h)) = NoSession
       THEN /\ out' = PResp("connect_gmail_simple", 500, h, FALSE)
            /\ UNCHANGED acctVars
       ELSE /\ nextAccountId <= MaxAccounts
            /\ IF success
               THEN /\ AddAccount(SessionUser(h), "gmail")
                    /\ out' = PResp("connect_gmail_simple", 200, h, TRUE)
               ELSE /\ out' = PResp("connect_gmail_simple", 500, h, TRUE)
                    /\ UNCHANGED acctVars
    /\ UNCHANGED <<sessVars, regVars, pc, req>>

\* get_current_user_from_token: 401 for a missing header, for a token with
\* no session and for a session whose user is not in the users table
\* (found: whether the select of the user returns a row)
get_current_user_from_token(h, found) ==
    IF Unauthenticated(h) \/ ~found
    THEN [status |-> 401, id |-> 0]
    ELSE [status |-> 200, id |-> SessionUser(h)]

\* POST /email-accounts/connect/gmail: the HTTPException of
\* get_current_user_from_token is raised inside the try block and caught by
\* "except Exception", which answers 500
ConnectGmailAccount(h, found, success) ==
    LET current_user == get_current_user_from_token(h, found)
    IN  /\ IF current_user.status # 200
           THEN /\ out' = PResp("connect_gmail", 500, h, FALSE)
                /\ UNCHANGED acctVars
           ELSE /\ nextAccountId <= MaxAccounts
                /\ IF success
                   THEN /\ AddAccount(current_user.id, "gmail")
                        /\ out' = PResp("connect_gmail", 200, h, TRUE)
                   ELSE /\ out' = PResp("connect_gmail", 500, h, TRUE)
                        /\ UNCHANGED acctVars
        /\ UNCHANGED <<sessVars, regVars, pc, req>>

\* GET /email-accounts/
GetUserEmailAccounts(h, found) ==
    /\ out' = PResp("accounts_list",
                    IF get_current_user_from_token(h, found).status # 200
                    THEN 500 ELSE 200, h, FALSE)
    /\ UNCHANGED <<sessVars, regVars, pc, req, acctVars>>

\* select(UserEmailAccount).where(id == account_id, user_id == current_user.id)
AccountOf(account_id, user_id) ==
    {a \in accounts : a.id = account_id /\ a.user_id = user_id}

\* DELETE /email-accounts/{account_id}
DisconnectEmailAccount(h, found, account_id) ==
    LET current_user == get_current_user_from_token(h, found)
    IN  /\ IF current_user.status # 200
              \/ AccountOf(account_id, current_user.id) = {}
           THEN /\ out' = PResp("disconnect", 500, h, FALSE)
                /\ UNCHANGED acctVars
           ELSE /\ accounts' = accounts \ AccountOf(account_id, current_user.id)
                /\ out' = PResp("disconnect", 200, h, FALSE)
                /\ UNCHANGED <<nextAccountId, synced>>
        /\ UNCHANGED <<sessVars, regVars, pc, req>>

\* POST /email-accounts/{account_id}/sync
SyncEmailAccount(h, found, account_id) ==
    LET current_user == get_current_user_from_token(h, found)
    IN  /\ IF current_user.status # 200
              \/ AccountOf(account_id, current_user.id) = {}
           THEN /\ out' = PResp("account_sync", 500, h, FALSE)
                /\ UNCHANGED acctVars
                /\ UNCHANGED mailVars
           ELSE \* one email fetched: email_data['user_id'] = current_user.id;
                \* process_single_email(email_data) is called without its
                \* user_id argument, so the row is stored with user_id None
                /\ nextMailId <= MaxMail
                /\ mail' = mail \cup {MailRow(NoOwner, current_user.id)}
                /\ nextMailId' = nextMailId + 1
                /\ synced' = synced \cup {account_id}
                /\ out' = PResp("account_sync", 200, h, TRUE)
                /\ UNCHANGED <<accounts, nextAccountId>>
        /\ UNCHANGED <<sessVars, regVars, pc, req>>

\* EmailService.load_mock_emails(user_id): nothing is loaded for an owner
\* who has emails; otherwise the mock emails (one, here) are stored for it
LoadMockEmails(owner) ==
    IF Len(get_user_emails(owner, 50, 0)) > 0
    THEN UNCHANGED mailVars
    ELSE /\ nextMailId <= MaxMail
         /\ mail' = mail \cup {MailRow(owner, 0)}
         /\ nextMailId' = nextMailId + 1

\* POST /emails/load-mock: load_mock_emails("data/mock_inbox.json"), the
\* path being passed where the user id is expected
LoadMockData ==
    /\ LoadMockEmails(PathOwner)
    /\ out' = Resp("load_mock", 200)
    /\ UNCHANGED <<sessVars, regVars, pc, req, acctVars>>

InitAccounts ==
    /\ accounts = {}
    /\ nextAccountId = 1
    /\ synced = {}

InitMail ==
    /\ mail = {}
    /\ nextMailId = 1

\* the headers the protected operations are called with: none, and
\* "Bearer <token>" for every presentable token
ProtectedHeaders == {h \in Headers : h = NoHeader \/ StartsWithBearer(h)}

NextProtected ==
    \/ /\ \/ \E p \in Passwords : Register("a@x.com", p)
          \/ \E h \in ProtectedHeaders : Logout(h)
          \/ \E h \in ProtectedHeaders : InboxBegin(1, h)
          \/ InboxFinish(1)
          \/ \E d \in SessionClockSteps : TickSession(d)
       /\ UNCHANGED <<acctVars, mailVars>>
    \/ /\ \/ \E h \in ProtectedHeaders : GetUserPrompts(h)
          \/ \E h \in ProtectedHeaders : SyncUserEmails(h)
          \/ \E h \in ProtectedHeaders : GetUserEmailAccountsSimple(h)
          \/ \E h \in ProtectedHeaders, success \in BOOLEAN :
                 ConnectGmailSimple(h, success)
          \/ \E h \in ProtectedHeaders, found \in BOOLEAN, success \in BOOLEAN :
                 ConnectGmailAccount(h, found, success)
          \/ \E h \in ProtectedHeaders, found \in BOOLEAN :
                 GetUserEmailAccounts(h, found)
          \/ \E h \in ProtectedHeaders, found \in BOOLEAN, a \in AccountIds :
                 DisconnectEmailAccount(h, found, a)
       /\ UNCHANGED mailVars
    \/ \E h \in ProtectedHeaders, found \in BOOLEAN, a \in AccountIds :
           SyncEmailAccount(h, found, a)
    \/ LoadMockData

(***************************************************************************)
(* Persistent accounts: verification and reset tokens                      *)
(* (api/auth_endpoints.py, models/user_models.py).                         *)
(* The handlers reject an undecodable or expired token before their first  *)
(* store access, and are taken here as single steps.                       *)
(***************************************************************************)
\* timedelta(days=1) and timedelta(hours=1), in seconds
VerifyTTL == 86400
ResetTTL == 3600

\* jwt.encode({"user_id": id, "exp": exp}, SECRET_KEY, "HS256") is a function
\* of the payload: the token is the pair (user_id, exp in whole seconds).
Jwt(user_id, exp) == [user_id |-> user_id, exp |-> exp]
\* the column value None
NoJwt == [user_id |-> 0, exp |-> 0]
\* a string that is no signed token, and the empty string
GarbageJwt == [user_id |-> 0, exp |-> 1]
EmptyJwt == [user_id |-> 0, exp |-> 2]

VARIABLES
    auth_users,     \* users table: id -> row
    issuedVerify,   \* history: tokens made by generate_verification_token
    issuedReset,    \* history: tokens made by generate_reset_token
    retired         \* history: <<purpose, token>> already consumed, or
                    \*   replaced on the record by a different, later token

authVars == <<auth_users, issuedVerify, issuedReset, retired>>
clockVars == <<now, ticks>>
otherSessVars == <<users_db, sessions_db, nextToken, issued, logouts>>

\* a decoder that does not look at exp
Decode_IgnoresExp(token) ==
    IF token \in {GarbageJwt, EmptyJwt, NoJwt} THEN "invalid" ELSE "ok"

\* jwt.decode(token, SECRET_KEY, algorithms=["HS256"]): the outcome
\* (ExpiredSignatureError once exp <= now, PyJWT 2)
Decode(token) ==
    IF token \in {GarbageJwt, EmptyJwt, NoJwt} THEN "invalid"
    ELSE IF token.exp <= now THEN "expired"
    ELSE "ok"

\* User.set_password
get_password_hash(p) == <<"hash", p>>

\* select(User).where(User.email == email): the ids of the rows
UserByEmail(email) == {i \in DOMAIN auth_users : auth_users[i].email = email}

\* the response, with the token and new password of the request it answers
AResp(op, status, detail, token, new_password) ==
    [op |-> op, status |-> status, detail |-> detail, jwt |-> token,
     new_password |-> new_password]

\* POST /register
AuthRegister(email, password) ==
    /\ IF password = ""
       THEN /\ out' = AResp("auth_register", 400, "required", NoJwt, "")
            /\ UNCHANGED authVars
       ELSE IF UserByEmail(email) # {}
       THEN /\ out' = AResp("auth_register", 400, "exists", NoJwt, "")
            /\ UNCHANGED authVars
       ELSE LET id == Cardinality(DOMAIN auth_users) + 1
                token == Jwt(id, now + VerifyTTL)
            IN  /\ auth_users' =
                       [i \in DOMAIN auth_users \cup {id} |->
                           IF i = id
                           THEN [email |-> email,
                                 password_hash |-> get_password_hash(password),
                                 is_verified |-> FALSE,
                                 is_active |-> TRUE,
                                 verification_token |-> token,
                                 reset_token |-> NoJwt]
                           ELSE auth_users[i]]
                /\ issuedVerify' = issuedVerify \cup {token}
                /\ out' = AResp("auth_register", 200, "", token, "")
                /\ UNCHANGED <<issuedReset, retired>>
    /\ UNCHANGED <<regVars, pc, req, clockVars, otherSessVars>>

\* POST /verify-email
VerifyEmail(token) ==
    /\ IF Decode(token) # "ok"
       THEN /\ out' = AResp("verify_email", 400, Decode(token), token, "")
            /\ UNCHANGED authVars
       ELSE IF token.user_id \notin DOMAIN auth_users
       THEN /\ out' = AResp("verify_email", 404, "not_found", token, "")
            /\ UNCHANGED authVars
       ELSE IF auth_users[token.user_id].verification_token # token
       THEN /\ out' = AResp("verify_email", 400, "invalid", token, "")
            /\ UNCHANGED authVars
       ELSE /\ auth_users' = [auth_users EXCEPT
                                 ![token.user_id].is_verified = TRUE,
                                 ![token.user_id].verification_token = NoJwt]
            /\ retired' = retired \cup {<<"verify", token>>}
            /\ out' = AResp("verify_email", 200, "", token, "")
            /\ UNCHANGED <<issuedVerify, issuedReset>>
    /\ UNCHANGED <<regVars, pc, req, clockVars, otherSessVars>>

\* POST /forgot-password
ForgotPassword(email) ==
    /\ IF UserByEmail(email) = {}
       THEN UNCHANGED authVars
       ELSE LET id == CHOOSE i \in UserByEmail(email) : TRUE
                token == Jwt(id, now + ResetTTL)
                old == auth_users[id].reset_token
            IN  /\ auth_users' = [auth_users EXCEPT ![id].reset_token = token]
                /\ issuedReset' = issuedReset \cup {token}
                /\ retired' = IF old \in {NoJwt, token} THEN retired
                              ELSE retired \cup {<<"reset", old>>}
                /\ UNCHANGED issuedVerify
    /\ out' = AResp("forgot_password", 200, "", NoJwt, "")
    /\ UNCHANGED <<regVars, pc, req, clockVars, otherSessVars>>

\* POST /reset-password
ResetPassword(token, new_password) ==
    /\ IF token = EmptyJwt \/ new_password = ""
       THEN /\ out' = AResp("reset_password", 400, "required", token, new_password)
            /\ UNCHANGED authVars
       ELSE IF Decode(token) # "ok"
       THEN /\ out' = AResp("reset_password", 400, Decode(token), token, new_password)
            /\ UNCHANGED authVars
       ELSE IF \/ token.user_id \notin DOMAIN auth_users
               \/ auth_users[token.user_id].reset_token # token
       THEN /\ out' = AResp("reset_password", 400, "invalid", token, new_password)
            /\ UNCHANGED authVars
       ELSE /\ auth_users' = [auth_users EXCEPT
                                 ![token.user_id].password_hash =
                                     get_password_hash(new_password),
                                 ![token.user_id].reset_token = NoJwt]
            /\ retired' = retired \cup {<<"reset", token>>}
            /\ out' = AResp("reset_password", 200, "", token, new_password)
            /\ UNCHANGED <<issuedVerify, issuedReset>>
    /\ UNCHANGED <<regVars, pc, req, clockVars, otherSessVars>>

\* time passes
AuthClockSteps == {1, ResetTTL, VerifyTTL - ResetTTL}
TickAuth(d) ==
    /\ ticks < MaxAuthTicks
    /\ now' = now + d
    /\ ticks' = ticks + 1
    /\ out' = Resp("tick", 0)
    /\ UNCHANGED <<regVars, pc, req, otherSessVars, authVars>>

RegisterEmails == {"a@x.com"}
AuthEmails == RegisterEmails \cup {"b@x.com"}
RegisterPasswords == {"", "secret1"}
NewPasswords == {"", "newpass1"}
\* the tokens a client can present: every token mailed so far, a string
\* that is no token, and the empty string
PresentableJwts == issuedVerify \cup issuedReset \cup {GarbageJwt, EmptyJwt}

InitAuth ==
    /\ auth_users = <<>>
    /\ issuedVerify = {}
    /\ issuedReset = {}
    /\ retired = {}

NextAuth ==
    \/ \E e \in RegisterEmails, p \in RegisterPasswords : AuthRegister(e, p)
    \/ \E t \in PresentableJwts : VerifyEmail(t)
    \/ \E e \in AuthEmails : ForgotPassword(e)
    \/ \E t \in PresentableJwts, p \in NewPasswords : ResetPassword(t, p)
    \/ \E d \in AuthClockSteps : TickAuth(d)

(***************************************************************************)
(* Persistent accounts: login (api/auth_endpoints.py).                     *)
(***************************************************************************)
\* the ids of the users table
AuthIds == 1..Cardinality(RegisterEmails)

VARIABLES
    last_login  \* users table, column last_login: id -> None or a time

loginVars == <<last_login>>

\* create_access_token(data={"user_id": user.id}), and no token
AccessToken(user_id) == [access_for |-> user_id]
NoAccess == [access_for |-> 0]

\* User.check_password(password)
check_password(user, password) ==
    user.password_hash = get_password_hash(password)

\* the response of login, with the credentials of the request it answers
LResp(status, detail, email, password, access_token) ==
    [op |-> "auth_login", status |-> status, detail |-> detail,
     email |-> email, password |-> password, access_token |-> access_token]

\* a login that does not look at is_verified
AuthLogin_SkipsVerified(email, password) ==
    /\ IF email = "" \/ password = ""
       THEN /\ out' = LResp(400, "required", email, password, NoAccess)
            /\ UNCHANGED last_login
       ELSE IF \/ UserByEmail(email) = {}
               \/ \E i \in UserByEmail(email) :
                     ~check_password(auth_users[i], password)
       THEN /\ out' = LResp(401, "invalid", email, password, NoAccess)
            /\ UNCHANGED last_login
       ELSE LET id == CHOOSE i \in UserByEmail(email) : TRUE
            IN  /\ last_login' = [last_login EXCEPT ![id] = <<now>>]
                /\ out' = LResp(200, "", email, password, AccessToken(id))
    /\ UNCHANGED <<regVars, pc, req, clockVars, otherSessVars, authVars>>

\* POST /login
AuthLogin(email, password) ==
    /\ IF email = "" \/ password = ""
       THEN /\ out' = LResp(400, "required", email, password, NoAccess)
            /\ UNCHANGED last_login
       ELSE IF \/ UserByEmail(email) = {}
               \/ \E i \in UserByEmail(email) :
                     ~check_password(auth_users[i], password)
       THEN /\ out' = LResp(401, "invalid", email, password, NoAccess)
            /\ UNCHANGED last_login
       ELSE LET id == CHOOSE i \in UserByEmail(email) : TRUE
            IN  IF ~auth_users[id].is_active
                THEN /\ out' = LResp(401, "deactivated", email, password, NoAccess)
                     /\ UNCHANGED last_login
                ELSE IF ~auth_users[id].is_verified
                THEN /\ out' = LResp(401, "unverified", email, password, NoAccess)
                     /\ UNCHANGED last_login
                ELSE /\ last_login' = [last_login EXCEPT ![id] = <<now>>]
                     /\ out' = LResp(200, "", email, password, AccessToken(id))
    /\ UNCHANGED <<regVars, pc, req, clockVars, otherSessVars, authVars>>

LoginEmails == AuthEmails \cup {""}
LoginPasswords == RegisterPasswords \cup NewPasswords \cup {"wrong"}

InitLogin == last_login = [i \in AuthIds |-> <<>>]

\* the clock of the login scenarios: a second, and the life of a
\* verification token
LoginClockSteps == {1, VerifyTTL}

NextLogin ==
    \/ /\ \/ \E e \in RegisterEmails, p \in RegisterPasswords : AuthRegister(e, p)
          \/ \E t \in issuedVerify \cup {GarbageJwt} : VerifyEmail(t)
          \/ \E e \in RegisterEmails : ForgotPassword(e)
          \/ \E t \in issuedReset, p \in NewPasswords \ {""} : ResetPassword(t, p)
          \/ \E d \in LoginClockSteps : ticks < MaxTicks /\ TickAuth(d)
       /\ UNCHANGED loginVars
    \/ \E e \in LoginEmails, p \in LoginPasswords : AuthLogin(e, p)

(***************************************************************************)
(* Texts and json.loads.                                                   *)
(* A text is a sequence of characters of a small alphabet: brackets,       *)
(* braces, the digit 1, the blank, and x for any other character.          *)
(***************************************************************************)
Chars == {"[", "]", "{", "}", "1", " ", "x"}

RECURSIVE TextsOfLen(_)
TextsOfLen(n) ==
    IF n = 0 THEN {<<>>}
    ELSE {Append(t, c) : t \in TextsOfLen(n - 1), c \in Chars}

RECURSIVE TextsUpTo(_)
TextsUpTo(n) == IF n = 0 THEN TextsOfLen(0) ELSE TextsOfLen(n) \cup TextsUpTo(n - 1)

Texts == TextsUpTo(MaxTextLen)

\* index of the first non-blank character at or after i (Len(s) + 1: none)
RECURSIVE SkipWs(_, _)
SkipWs(s, i) == IF i <= Len(s) /\ s[i] = " " THEN SkipWs(s, i + 1) ELSE i

\* index after the run of digits that starts at i
RECURSIVE SkipDigits(_, _)
SkipDigits(s, i) == IF i <= Len(s) /\ s[i] = "1" THEN SkipDigits(s, i + 1) ELSE i

RECURSIVE StripRight(_)
StripRight(s) ==
    IF s # <<>> /\ s[Len(s)] = " " THEN StripRight(SubSeq(s, 1, Len(s) - 1)) ELSE s

\* str.strip()
Strip(s) == StripRight(SubSeq(s, SkipWs(s, 1), Len(s)))

\* str.startswith(c)
StartsWith(s, c) == s # <<>> /\ s[1] = c

JsonFail == [ok |-> FALSE, next |-> 0, value |-> <<>>]

\* the JSON value that starts at position i of s: a number, an array of at
\* most one value, or the empty object; value is the document without blanks
RECURSIVE ParseValue(_, _)
ParseValue(s, i) ==
    IF i > Len(s) THEN JsonFail
    ELSE IF s[i] = "1"
    THEN [ok |-> TRUE, next |-> SkipDigits(s, i),
          value |-> SubSeq(s, i, SkipDigits(s, i) - 1)]
    ELSE IF s[i] = "["
    THEN LET j == SkipWs(s, i + 1)
         IN  IF j <= Len(s) /\ s[j] = "]"
             THEN [ok |-> TRUE, next |-> j + 1, value |-> <<"[", "]">>]
             ELSE LET e == ParseValue(s, j)
                      k == SkipWs(s, e.next)
                  IN  IF e.ok /\ k <= Len(s) /\ s[k] = "]"
                      THEN [ok |-> TRUE, next |-> k + 1,
                            value |-> <<"[">> \o e.value \o <<"]">>]
                      ELSE JsonFail
    ELSE IF s[i] = "{"
    THEN LET j == SkipWs(s, i + 1)
         IN  IF j <= Len(s) /\ s[j] = "}"
             THEN [ok |-> TRUE, next |-> j + 1, value |-> <<"{", "}">>]
             ELSE JsonFail
    ELSE JsonFail

\* json.loads(s): the value, or ok = FALSE for JSONDecodeError
json_loads(s) ==
    LET r == ParseValue(s, SkipWs(s, 1))
    IN  IF r.ok /\ SkipWs(s, r.next) > Len(s)
        THEN [ok |-> TRUE, value |-> r.value]
        ELSE [ok |-> FALSE, value |-> <<>>]

(***************************************************************************)
(* EmailService.process_single_email: the three-way AI fan-out.            *)
(***************************************************************************)
\* values of the email fields
NoneValue == [none |-> TRUE]
Str(s) == [str |-> s]
Text(cs) == [chars |-> cs]
GivenItems == [given |-> "action_items"]
EmptyList == [list |-> <<>>]
\* [{"task": action_items_raw, "deadline": None}]
Wrapped(raw) == [list |-> <<[task |-> raw, deadline |-> NoneValue]>>]
Parsed(value) == [json |-> value]

Branches == {"categorization", "action_extraction", "summary"}

\* the seeded templates of the three categories, each active or not
PipelineTables ==
    {[i \in 1..3 |->
        [category |-> IF i = 1 THEN "categorization"
                      ELSE IF i = 2 THEN "action_extraction" ELSE "summary",
         is_active |-> a[i],
         version |-> DefaultVersion]] : a \in [1..3 -> BOOLEAN]}

\* email_data: category, action_items and summary, each absent or given
EmailData ==
    [category : Opt({NoneValue, Str(""), Str("Work")}),
     action_items : Opt({GivenItems}),
     summary : Opt({Str("Quarterly report")})]

\* `not category`
Falsy(v) == v = NoneValue \/ v = Str("")

\* f"OpenAI API error: {e}": a text that is no JSON document
ErrorText == <<"x", " ", "x">>
\* what a provider call returns: its text, and whether the call failed
Outcomes(T) ==
    {[failed |-> FALSE, text |-> t] : t \in T} \cup
    {[failed |-> TRUE, text |-> ErrorText]}

\* a parse without the fallback for text that json.loads rejects
ParseActionItems_NoFallback(raw) ==
    IF StartsWith(Strip(raw), "{") \/ StartsWith(Strip(raw), "[")
    THEN IF json_loads(raw).ok THEN Parsed(json_loads(raw).value)
         ELSE EmptyList
    ELSE Wrapped(raw)

\* the parse of action_items_raw
ParseActionItems(raw) ==
    IF StartsWith(Strip(raw), "{") \/ StartsWith(Strip(raw), "[")
    THEN IF json_loads(raw).ok THEN Parsed(json_loads(raw).value)
         ELSE Wrapped(raw)
    ELSE Wrapped(raw)

VARIABLES
    pipe,       \* process_single_email: its position and local variables
    stored      \* the Email row the latest call committed (<<>>: not yet)

pipeVars == <<pipe, stored>>

IdlePipe ==
    [pc |-> "idle", category |-> NoneValue, action_items |-> EmptyList,
     summary |-> NoneValue, entered |-> FALSE, missing |-> {}, failed |-> {},
     ran |-> {}, results |-> <<>>]

\* lines 449-459: the initial field values and the three template lookups
PipeBegin(d) ==
    /\ pipe.pc \in {"idle", "done"}
    /\ LET category == Get(d.category, Str("Uncategorized"))
           start == [IdlePipe EXCEPT
                        !.category = category,
                        !.action_items = Get(d.action_items, EmptyList),
                        !.summary = Get(d.summary, Str(""))]
           missing == {b \in Branches : get_active_prompt(b).kind # "one"}
       IN  pipe' =
               IF ~Falsy(category) THEN [start EXCEPT !.pc = "store"]
               ELSE IF missing # {}
               THEN [start EXCEPT !.pc = "store", !.entered = TRUE,
                                  !.missing = missing]
               ELSE [start EXCEPT !.pc = "gather", !.entered = TRUE]
    /\ stored' = <<>>
    /\ out' = Pending("process_single_email")
    /\ UNCHANGED <<regVars, pc, req>>

\* lines 463-478: the three provider calls and the parse of the action items
PipeGather(c, a, m) ==
    /\ pipe.pc = "gather"
    /\ pipe' = [pipe EXCEPT
                   !.pc = "store",
                   !.category = Text(c.text),
                   !.action_items = ParseActionItems(a.text),
                   !.summary = Text(m.text),
                   !.ran = Branches,
                   !.failed = {b \in Branches :
                                  \/ b = "categorization" /\ c.failed
                                  \/ b = "action_extraction" /\ a.failed
                                  \/ b = "summary" /\ m.failed},
                   !.results = [b \in Branches |->
                                   IF b = "categorization" THEN c.text
                                   ELSE IF b = "action_extraction" THEN a.text
                                   ELSE m.text]]
    /\ out' = Pending("process_single_email")
    /\ UNCHANGED <<regVars, pc, req, stored>>

\* lines 484-505: the Email row is added and committed
PipeStore ==
    /\ pipe.pc = "store"
    /\ stored' = <<[category |-> pipe.category,
                    action_items |-> pipe.action_items,
                    summary |-> pipe.summary]>>
    /\ emails' = emails \cup EmailIds
    /\ pipe' = [pipe EXCEPT !.pc = "done"]
    /\ out' = Resp("process_single_email", 200)
    /\ UNCHANGED <<prompts, nextPromptId, llm_calls, offPath, moved, pc, req>>

\* texts the categorization and summary calls return
BranchTexts == {<<"x">>}

InitPipe ==
    /\ pipe = IdlePipe
    /\ stored = <<>>

NextPipeline ==
    \/ \E d \in EmailData : PipeBegin(d)
    \/ \E c \in Outcomes(BranchTexts), a \in Outcomes(Texts),
          m \in Outcomes(BranchTexts) : PipeGather(c, a, m)
    \/ PipeStore

(***************************************************************************)
(* LLMService in mock mode (services/llm_service.py).                      *)
(* A prompt is a sequence of fragments; a keyword is inside the prompt     *)
(* when one of the fragments, lower-cased, is the keyword.                 *)
(***************************************************************************)
Fragments == {"Categoriz", "action", "task", "draft", "summar", "please"}
MockPrompts ==
    {<<f>> : f \in Fragments}
        \cup {<<pair[1], pair[2]>> :
                 pair \in {q \in Fragments \X Fragments : q[1] # q[2]}}

\* str.lower(), fragment by fragment
LowerFragment(f) == IF f = "Categoriz" THEN "categoriz" ELSE f
Lower(prompt) == [i \in DOMAIN prompt |-> LowerFragment(prompt[i])]

\* keyword in prompt
Contains(prompt, keyword) == \E i \in DOMAIN prompt : prompt[i] = keyword

\* the sender, subject and body that email_content is formatted from
MockContents ==
    {[sender |-> [local |-> "b", domain |-> "x.com"], subject |-> "Hi", body |-> b] :
        b \in {"test", "tests", "testing"}}
    \cup {[sender |-> [local |-> "alice", domain |-> ""], subject |-> "Hi", body |-> ""]}

\* len(sender): local part, and "@" with the domain when there is one
SenderLen(s) == Len(s.local) + (IF s.domain = "" THEN 0 ELSE 1 + Len(s.domain))

\* len(f"From: {sender}\nSubject: {subject}\nBody: {body}")
ContentLen(c) ==
    Len("From: ") + SenderLen(c.sender) + 1 + Len("Subject: ") + Len(c.subject)
        + 1 + Len("Body: ") + Len(c.body)

MockCategories == <<"Important", "Newsletter", "Spam", "To-Do">>

\* a mock that indexes the list one position further
MockCategory_OffByOne(n) == MockCategories[((n + 1) % Len(MockCategories)) + 1]

\* categories[len(email_content) % 4] (the tuple is indexed from 1)
MockCategory(n) == MockCategories[(n % Len(MockCategories)) + 1]

\* the sender name the reply draft greets
SenderName(c) == IF c.sender.domain # "" THEN c.sender.local ELSE "there"

\* min(150, len(email_content))
SummaryLength(c) == IF ContentLen(c) < 150 THEN ContentLen(c) ELSE 150

\* a mock that looks for the summary keyword before the others
mock_processing_SummaryFirst(prompt, content) ==
    IF Contains(Lower(prompt), "summar")
    THEN [kind |-> "summary", of |-> content, upto |-> SummaryLength(content)]
    ELSE IF Contains(Lower(prompt), "categoriz")
    THEN [kind |-> "categorization",
          category |-> MockCategory(ContentLen(content)), confidence |-> "0.85"]
    ELSE IF Contains(Lower(prompt), "action") \/ Contains(Lower(prompt), "task")
    THEN [kind |-> "tasks", task |-> "Review the document mentioned in email"]
    ELSE IF Contains(Lower(prompt), "reply") \/ Contains(Lower(prompt), "draft")
    THEN [kind |-> "reply", greeting |-> SenderName(content)]
    ELSE [kind |-> "default", prompt |-> prompt]

\* LLMService._mock_processing: the text returned, by its parts
mock_processing(prompt, content) ==
    IF Contains(Lower(prompt), "categoriz")
    THEN [kind |-> "categorization",
          category |-> MockCategory(ContentLen(content)), confidence |-> "0.85"]
    ELSE IF Contains(Lower(prompt), "action") \/ Contains(Lower(prompt), "task")
    THEN [kind |-> "tasks", task |-> "Review the document mentioned in email"]
    ELSE IF Contains(Lower(prompt), "reply") \/ Contains(Lower(prompt), "draft")
    THEN [kind |-> "reply", greeting |-> SenderName(content)]
    ELSE IF Contains(Lower(prompt), "summar")
    THEN [kind |-> "summary", of |-> content, upto |-> SummaryLength(content)]
    ELSE [kind |-> "default", prompt |-> prompt]

VARIABLES
    first_call  \* history: the first call of process_prompt (<<>>: none yet)

mockVars == <<first_call>>

\* LLMService.process_prompt with no provider client configured
MockCall(prompt, content) ==
    /\ out' = [op |-> "process_prompt", status |-> 200, detail |-> "",
               prompt |-> prompt, content |-> content,
               response |-> mock_processing(prompt, content)]
    /\ first_call' = IF first_call = <<>>
                     THEN <<[prompt |-> prompt, content |-> content,
                             response |-> mock_processing(prompt, content)]>>
                     ELSE first_call
    /\ UNCHANGED <<regVars, pc, req>>

InitMock == first_call = <<>>

NextMock == \E p \in MockPrompts, c \in MockContents : MockCall(p, c)

(***************************************************************************)
(* The prompt registry and the agent endpoint under lim concurrent         *)
(* requests.                                                               *)
(***************************************************************************)
ActiveInputs == Opt(BOOLEAN)
CategoryInputs == Opt(Categories)

InitPrompt ==
    /\ prompts = <<>>
    /\ nextPromptId = 1
    /\ pc = [r \in Requests |-> "idle"]
    /\ req = [r \in Requests |-> NoRequest]
    /\ emails = {}
    /\ llm_calls = 0
    /\ offPath = FALSE
    /\ moved = FALSE

NextPrompt(lim) ==
    \E r \in Requests :
        \/ \E cat \in Categories, act \in ActiveInputs :
               CreateBegin(r, lim, cat, act)
        \/ CreateDeactivate(r)
        \/ CreateInsert(r)
        \/ \E id \in PromptIds, act \in ActiveInputs, cat \in CategoryInputs :
               UpdateBegin(r, lim, id, act, cat)
        \/ UpdateSelectPeers(r)
        \/ UpdateDeactivate(r)
        \/ UpdateCommit(r)
        \/ \E id \in PromptIds : DeleteBegin(r, lim, id)
        \/ DeleteCommit(r)

\* the request slots that serve the agent endpoint; slot 1 serves the registry
AgentSlots == {MaxRequests}

NextAgent ==
    \/ \E e \in EmailIds : StoreEmail(e)
    \/ \E r \in AgentSlots :
        \/ \E e \in EmailIds \cup {AbsentEmailId}, t \in PromptTypes, c \in CustomPrompts :
               AgentBegin(r, e, t, c)
        \/ AgentResolve(r)
        \/ AgentSubmit(r)

vars ==
    <<regVars, pc, req, out, sessVars, authVars, pipeVars, mockVars, acctVars,
      seedVars, mailVars, loginVars>>

Init ==
    /\ InitPrompt
    /\ InitSession
    /\ InitAuth
    /\ InitPipe
    /\ InitMock
    /\ InitAccounts
    /\ InitSeed
    /\ InitMail
    /\ InitLogin
    /\ out = Resp("init", 0)

\* requests served one at a time
\* the variables of the other components
notRegVars ==
    <<sessVars, authVars, pipeVars, mockVars, acctVars, seedVars, mailVars,
      loginVars>>
SpecSeq == Init /\ [][NextPrompt(1) /\ UNCHANGED notRegVars]_vars
\* requests interleaved at their suspension points
\* one request at a time, updates carrying a version among them
NextVersion ==
    \/ NextPrompt(1)
    \/ \E id \in PromptIds, ver \in VersionInputs : UpdateWithVersion(1, 1, id, ver)
SpecVersion == Init /\ [][NextVersion /\ UNCHANGED notRegVars]_vars
SpecConc == Init /\ [][NextPrompt(MaxRequests) /\ UNCHANGED notRegVars]_vars
\* the agent endpoint interleaved with one registry request at a time
\* (the registry holding at most MaxAgentPrompts templates over the run)
AgentScope == nextPromptId' <= MaxAgentPrompts + 1
SpecAgent ==
    Init /\ [][(NextPrompt(1) \/ NextAgent) /\ AgentScope
                 /\ UNCHANGED notRegVars]_vars
\* the in-memory session registry
SpecSession ==
    Init /\ [][NextSession
                 /\ UNCHANGED <<authVars, pipeVars, mockVars, acctVars, seedVars,
                               mailVars, loginVars>>]_vars
\* the persistent accounts and their verification / reset tokens
SpecAuth ==
    Init /\ [][NextAuth
                 /\ UNCHANGED <<pipeVars, mockVars, acctVars, seedVars, mailVars,
                               loginVars>>]_vars
\* process_single_email over the seeded templates, each active or not
InitPipeline ==
    /\ prompts \in PipelineTables
    /\ nextPromptId = 4
    /\ pc = [r \in Requests |-> "idle"]
    /\ req = [r \in Requests |-> NoRequest]
    /\ emails = {}
    /\ llm_calls = 0
    /\ offPath = FALSE
    /\ moved = FALSE
    /\ InitSession
    /\ InitAuth
    /\ InitPipe
    /\ InitMock
    /\ InitAccounts
    /\ InitSeed
    /\ InitMail
    /\ InitLogin
    /\ out = Resp("init", 0)
SpecPipeline ==
    InitPipeline
        /\ [][NextPipeline
                 /\ UNCHANGED <<sessVars, authVars, mockVars, acctVars, seedVars,
                               mailVars, loginVars>>]_vars
\* process_prompt in mock mode
SpecMock ==
    Init /\ [][NextMock
                 /\ UNCHANGED <<sessVars, authVars, pipeVars, acctVars, seedVars,
                               mailVars, loginVars>>]_vars
\* the token-protected operations over the in-memory session registry
SpecProtected ==
    Init /\ [][NextProtected
                 /\ UNCHANGED <<authVars, pipeVars, mockVars, seedVars, loginVars>>]_vars
\* seeding runs among creations, renamings and deletions of templates
SpecSeed ==
    Init /\ [][NextSeed
                 /\ UNCHANGED <<sessVars, authVars, pipeVars, mockVars, acctVars,
                               mailVars, loginVars>>]_vars
\* the persistent accounts with their login
SpecLogin ==
    Init /\ [][NextLogin
                 /\ UNCHANGED <<pipeVars, mockVars, acctVars, seedVars, mailVars>>]_vars


(***************************************************************************)
(* Properties of the prompt template registry.                             *)
(***************************************************************************)
AtMostOneActive == \A c \in Categories : Cardinality(ActiveIn(c)) <= 1

\* C1: when templates become active only through create_prompt with
\* is_active=true or update_prompt flipping is_active false->true, every
\* committed store state has at most one active template per category.
C1_AtMostOneActivePerCategory == ~offPath => AtMostOneActive

\* Request r commits an activation in this step: the insert of a create with
\* is_active=true, or the commit of an update that flips is_active.
CreateActivates(r) == pc[r] = "create_insert" /\ pc'[r] = "idle"
UpdateActivates(r) ==
    /\ pc[r] = "update_commit" /\ pc'[r] = "idle"
    /\ req[r].id \in DOMAIN prompts
    /\ Flips(req[r].is_active, req[r].loaded)

\* C2: after an activation, get_active_prompt of the template's category
\* returns the template activated last, and every template of the category
\* activated before is inactive.
C2_GetActiveReturnsLatestActivation ==
    [][\A r \in Requests :
          /\ (CreateActivates(r) /\ ~offPath') =>
                 ScalarOneOrNone(SelectActiveOf(prompts', req[r].category, 0))
                     = [kind |-> "one", id |-> nextPromptId]
          /\ (UpdateActivates(r) /\ ~offPath') =>
                 ScalarOneOrNone(SelectActiveOf(prompts',
                                     prompts'[req[r].id].category, 0))
                     = [kind |-> "one", id |-> req[r].id]
      ]_vars

\* Request r has committed the deactivation of the peers it selected and has
\* not yet committed its target as active.
PeersDeactivatedTargetPending(r) ==
    /\ pc[r] \in {"create_insert", "update_commit"}
    /\ req[r].peers # {}
    /\ \A i \in req[r].peers : i \in DOMAIN prompts => ~prompts[i].is_active

\* C7: an activation deactivates the peers and activates the target in one
\* commit: no committed state has the peers deactivated and the target
\* not yet stored as active.
C7_ActivationIsOneCommit ==
    ~offPath => \A r \in Requests : ~PeersDeactivatedTargetPending(r)

\* C8: after two concurrent activations in one category have both completed,
\* at most one template of the category is active.
C8_ConcurrentActivationsKeepOneActive ==
    (~offPath /\ ~moved /\ \A r \in Requests : pc[r] = "idle")
        => AtMostOneActive

(***************************************************************************)
(* Properties of the agent endpoint.                                       *)
(***************************************************************************)
\* C10: processing an email with the active template of a category that has
\* no active template (no custom prompt) ends in a 404 and submits nothing
\* to the language model.
C10_NoActiveTemplateIsNotFound ==
    [][\A r \in Requests :
          (/\ pc[r] = "agent_resolve"
           /\ pc'[r] # "agent_resolve"
           /\ ~TruthyText(req[r].custom)
           /\ ActiveIn(req[r].prompt_type) = {})
          => /\ out'.op = "process_with_agent" /\ out'.status = 404
             /\ pc'[r] = "idle"
             /\ llm_calls' = llm_calls
      ]_vars

\* An agent request found its email, found no active template and was
\* answered 404 without any submission, although the category has a template.
C10_Witness ==
    /\ out = RespD("process_with_agent", 404, "No active prompt found")
    /\ emails # {}
    /\ llm_calls = 0
    /\ \E i \in DOMAIN prompts : ~prompts[i].is_active


(***************************************************************************)
(* Properties of the in-memory session registry.                           *)
(***************************************************************************)
\* C3: once logout has completed with a header that carries the issued
\* token t, with or without the "Bearer " prefix, verify_token(t) returns
\* none.
C3_LogoutRevokesToken ==
    [][(out'.op = "logout" /\ out'.token \in DOMAIN issued)
         => LookupSession(sessions_db', out'.token, now') = NoSession]_vars

\* C4: verify_token(t) returns a session exactly when t is a key of the
\* registry and less than 86400 seconds have passed since its creation, and
\* the session returned carries the user id the token was created for.
C4_VerifyTokenIffFresh ==
    out.op = "verify_token" =>
        /\ (out.user # 0) <=>
               (/\ out.token \in DOMAIN sessions_db
                /\ now - sessions_db[out.token].created_at < 86400)
        /\ out.user # 0 => out.user = issued[out.token]

\* verify_token was called on a registered token exactly 86400 seconds after
\* its creation and returned none.
C4_Witness ==
    /\ out.op = "verify_token"
    /\ out.user = 0
    /\ out.token \in DOMAIN sessions_db
    /\ now - sessions_db[out.token].created_at = 86400

IssuedAt(token, ttl) == token.exp - ttl

\* the answer in out' is to a verification token presented to verify-email
\* more than 24h after its issue
LateVerification ==
    /\ out'.op = "verify_email"
    /\ out'.jwt \in issuedVerify
    /\ now - IssuedAt(out'.jwt, VerifyTTL) > VerifyTTL

\* the answer in out' is to a reset token presented to reset-password more
\* than 1h after its issue
LateReset ==
    /\ out'.op = "reset_password"
    /\ out'.jwt \in issuedReset
    /\ now - IssuedAt(out'.jwt, ResetTTL) > ResetTTL

RejectedAsExpired ==
    /\ out'.status = 400
    /\ out'.detail = "expired"
    /\ auth_users' = auth_users

\* C5 (as stated): a verification token presented to verify-email more
\* than 24h after issue, or a reset token presented to reset-password more
\* than 1h after issue, is always rejected with the 'expired' outcome and
\* the user record keeps its values.
C5_LateTokenAlwaysExpired ==
    [][(LateVerification \/ LateReset) => RejectedAsExpired]_vars

\* C5 (amended): a verification token presented to verify-email more than
\* 24h after issue, or a reset token presented to reset-password together
\* with a non-empty new password more than 1h after issue, is rejected with
\* the 'expired' outcome and the user record keeps its values; a late reset
\* token presented without a new password is rejected as a missing field,
\* and the user record keeps its values as well.
C5_LateTokenExpiredWhenPasswordGiven ==
    [][/\ (LateVerification \/ (LateReset /\ out'.new_password # ""))
           => RejectedAsExpired
       /\ (LateReset /\ out'.new_password = "")
           => /\ out'.status = 400
              /\ out'.detail = "required"
              /\ auth_users' = auth_users]_vars

\* a reset token still stored on the user record was presented, with a new
\* password, more than 1h after issue and answered 'expired'
C5_Witness ==
    /\ out.op = "reset_password"
    /\ out.detail = "expired"
    /\ out.new_password # ""
    /\ out.jwt \in issuedReset
    /\ now - IssuedAt(out.jwt, ResetTTL) > ResetTTL
    /\ out.jwt.user_id \in DOMAIN auth_users
    /\ auth_users[out.jwt.user_id].reset_token = out.jwt
    /\ auth_users[out.jwt.user_id].password_hash = get_password_hash("secret1")

\* C6: a verification or reset token is accepted at most once: it is
\* accepted only while it equals the value stored on the user record for
\* that purpose, the stored value is cleared in the step that accepts it,
\* and a token that was already accepted, or superseded by a later-issued
\* token for the same purpose, is rejected.
C6_TokenAcceptedAtMostOnce ==
    [][/\ (out'.op = "verify_email" /\ out'.status = 200)
           => /\ out'.jwt.user_id \in DOMAIN auth_users
              /\ auth_users[out'.jwt.user_id].verification_token = out'.jwt
              /\ auth_users'[out'.jwt.user_id].verification_token = NoJwt
              /\ <<"verify", out'.jwt>> \notin retired
       /\ (out'.op = "reset_password" /\ out'.status = 200)
           => /\ out'.jwt.user_id \in DOMAIN auth_users
              /\ auth_users[out'.jwt.user_id].reset_token = out'.jwt
              /\ auth_users'[out'.jwt.user_id].reset_token = NoJwt
              /\ <<"reset", out'.jwt>> \notin retired]_vars

(***************************************************************************)
(* Properties of process_single_email (SpecPipeline).                      *)
(***************************************************************************)
\* the branches that failed: no active template, or a provider error
FailedBranches == pipe.missing \cup pipe.failed

\* the field of the Email row that branch b fills
FieldOf(row, b) ==
    IF b = "categorization" THEN row.category
    ELSE IF b = "action_extraction" THEN row.action_items
    ELSE row.summary

\* the degraded default of branch b
DegradedDefault(b) ==
    IF b = "categorization" THEN Str("Uncategorized")
    ELSE IF b = "action_extraction" THEN EmptyList
    ELSE Str("")

\* the value branch b stores for the provider text t
ResultOf(b, t) == IF b = "action_extraction" THEN ParseActionItems(t) ELSE Text(t)

\* C11: when exactly one branch of the fan-out fails (missing template or
\* provider error), the stored email holds the results of the other two
\* branches and the degraded default in the failed branch's field.
C11_BranchFailureIsolated ==
    (pipe.pc = "done" /\ pipe.entered /\ Cardinality(FailedBranches) = 1)
        => \A b \in Branches :
              IF b \in FailedBranches
              THEN FieldOf(stored[1], b) = DegradedDefault(b)
              ELSE /\ b \in pipe.ran
                   /\ FieldOf(stored[1], b) = ResultOf(b, pipe.results[b])

\* C12: once the provider texts are in, the action items are set, and for
\* every action text that is no JSON document they are the one-element list
\* [{task: <raw text>, deadline: null}], in the handler and in the stored row.
C12_NonJsonIsWrapped ==
    pipe.ran # {}
        => /\ pipe.pc \in {"store", "done"}
           /\ ~json_loads(pipe.results["action_extraction"]).ok
                 => /\ pipe.action_items =
                           Wrapped(pipe.results["action_extraction"])
                    /\ pipe.pc = "done"
                          => stored[1].action_items =
                                 Wrapped(pipe.results["action_extraction"])

\* a text that starts with '[' after blanks and is no JSON document was
\* wrapped and stored
C12_Witness ==
    /\ pipe.pc = "done"
    /\ pipe.ran # {}
    /\ pipe.results["action_extraction"] = <<" ", "[", "x">>
    /\ stored[1].action_items = Wrapped(<<" ", "[", "x">>)

(***************************************************************************)
(* Properties of the mock mode of LLMService (SpecMock).                   *)
(***************************************************************************)
\* the keyword branch of a prompt: the first match in the order categoriz,
\* action / task, reply / draft, summar, else default
KeywordBranch(prompt) ==
    IF Contains(Lower(prompt), "categoriz") THEN "categorization"
    ELSE IF Contains(Lower(prompt), "action") \/ Contains(Lower(prompt), "task")
    THEN "tasks"
    ELSE IF Contains(Lower(prompt), "reply") \/ Contains(Lower(prompt), "draft")
    THEN "reply"
    ELSE IF Contains(Lower(prompt), "summar") THEN "summary"
    ELSE "default"

C14_MockCategoryByLength ==
    (out.op = "process_prompt" /\ Contains(Lower(out.prompt), "categoriz"))
        => /\ out.response.kind = "categorization"
           /\ out.response.category =
                  <<"Important", "Newsletter", "Spam", "To-Do">>
                      [(ContentLen(out.content) % 4) + 1]
           /\ out.response.category \in {"Important", "Newsletter", "Spam", "To-Do"}

\* the email b@x.com / Hi / test: 36 characters of content, Important
C14_Witness ==
    /\ out.op = "process_prompt"
    /\ Contains(Lower(out.prompt), "categoriz")
    /\ out.content = [sender |-> [local |-> "b", domain |-> "x.com"],
                      subject |-> "Hi", body |-> "test"]
    /\ ContentLen(out.content) = 36
    /\ out.response.category = "Important"

(***************************************************************************)
(* Login after registration, in-memory registry (SpecSession).             *)
(***************************************************************************)
\* C15: when register(e, p) has just succeeded, a login(e, p) taken as the
\* very next step succeeds and returns a token never handed out before,
\* which verify_token resolves to the id of the registered user.
C15_LoginAfterRegister ==
    [][\A e \in UserEmails, p \in Passwords :
          (/\ out.op = "register"
           /\ out.status = 200
           /\ e \in DOMAIN users_db
           /\ users_db[e] = [id |-> out.user, password_hash |-> hash_password(p)]
           /\ Len(p) >= 6
           /\ Login(e, p))
              => /\ out'.op = "login"
                 /\ out'.status = 200
                 /\ out'.token \notin DOMAIN issued
                 /\ out'.token # out.token
                 /\ LookupSession(sessions_db', out'.token, now').user_id = out.user
                 /\ out.user # NoSession.user_id]_vars

\* the login that follows the registration of the first user at once: the
\* registry holds one user and the two tokens handed out to them
C15_Witness ==
    /\ out.op = "login"
    /\ out.status = 200
    /\ Cardinality(DOMAIN users_db) = 1
    /\ DOMAIN issued = {1, 2}
    /\ out.token = 2
    /\ ticks = 0
    /\ logouts = {}
    /\ verify_token(out.token).user_id = out.user

(***************************************************************************)
(* Properties of the token-protected operations (SpecProtected).           *)
(***************************************************************************)
ProtectedOps ==
    {"prompts_my", "emails_sync", "accounts_list_simple", "connect_gmail_simple",
     "connect_gmail", "accounts_list", "disconnect", "account_sync"}

\* C16: a token-protected operation called with a missing header, or with a
\* token that has no valid session (unknown, expired or logged out), answers
\* 401, leaves the store unchanged and does not reach the email provider.
C16_UnauthenticatedIs401 ==
    [][/\ (out'.op \in ProtectedOps /\ Unauthenticated(out'.header))
            => /\ out'.status = 401
               /\ ~out'.provider
               /\ UNCHANGED <<acctVars, regVars>>
       /\ (out'.op = "my_inbox" /\ pc[1] = "idle" /\ out'.status # 401)
            => /\ verify_token(out'.token) # NoSession
               /\ UNCHANGED <<acctVars, regVars>>]_vars

C18_GetActiveNeverFails ==
    ~offPath =>
        \A c \in Categories :
            LET found == get_active_prompt(c)
            IN  /\ found.kind # "MultipleResultsFound"
                /\ found.kind = "one" =>
                       /\ prompts[found.id].category = c
                       /\ prompts[found.id].is_active
                /\ found.kind = "none" => ActiveIn(c) = {}

\* the update of request r carries is_active=true for a template that was
\* inactive when the update loaded it
ActivatesInactive(q) == q.is_active = <<TRUE>> /\ ~q.loaded.is_active

\* the other templates are as they were
OthersUnchanged(id) ==
    /\ DOMAIN prompts' = DOMAIN prompts
    /\ \A i \in DOMAIN prompts \ {id} : prompts'[i] = prompts[i]

\* C19: update_prompt deactivates the other active templates of the category
\* the template has when the update loads it exactly when the update carries
\* is_active=true and the template was inactive; otherwise (is_active absent
\* or false, or the template already active) no step of the update changes
\* another template.
C19_UpdateDeactivatesPeersIffFlip ==
    [][\A r \in Requests :
          \* the update starts: it goes on to the deactivation exactly on a flip
          /\ (pc[r] = "idle" /\ pc'[r] \in {"update_select_peers", "update_commit"})
                => /\ (pc'[r] = "update_select_peers") <=> ActivatesInactive(req'[r])
                   /\ OthersUnchanged(req'[r].id)
          \* the deactivation: every other template of the category is inactive
          \* afterwards, the templates of the other categories are untouched
          /\ (pc[r] = "update_deactivate" /\ pc'[r] = "update_commit")
                => /\ ActivatesInactive(req[r])
                   /\ DOMAIN prompts' = DOMAIN prompts
                   /\ \A i \in DOMAIN prompts \ {req[r].id} :
                         IF prompts[i].category = req[r].loaded.category
                         THEN prompts'[i] = [prompts[i] EXCEPT !.is_active = FALSE]
                         ELSE prompts'[i] = prompts[i]
          \* the select and the commit of the update change no other template
          /\ (pc[r] \in {"update_select_peers", "update_commit"} /\ pc'[r] # pc[r])
                => OthersUnchanged(req[r].id)
      ]_vars

\* an activating update has deactivated the active template of its category
C19_Witness ==
    /\ pc[1] = "update_commit"
    /\ req[1].is_active = <<TRUE>>
    /\ ~req[1].loaded.is_active
    /\ req[1].peers # {}
    /\ \A i \in req[1].peers :
          prompts[i].category = req[1].loaded.category /\ ~prompts[i].is_active

\* C20: create_prompt without activation (is_active absent or false) stores
\* the new template inactive and changes no existing template; with
\* is_active=true it stores the new template active, every other template of
\* its category being inactive.
C20_CreateStoresRequestedFlag ==
    [][\A r \in Requests :
          /\ \A cat \in Categories, act \in {<<>>, <<FALSE>>} :
                CreateBegin(r, 1, cat, act)
                   => /\ DOMAIN prompts' = DOMAIN prompts \cup {nextPromptId}
                      /\ prompts'[nextPromptId].category = cat
                      /\ ~prompts'[nextPromptId].is_active
                      /\ \A i \in DOMAIN prompts : prompts'[i] = prompts[i]
          /\ (pc[r] = "create_insert" /\ pc'[r] = "idle")
                => /\ req[r].is_active = <<TRUE>>
                   /\ prompts'[nextPromptId].is_active
                   /\ \A i \in DOMAIN prompts :
                         prompts'[i].category = req[r].category
                            => ~prompts'[i].is_active
      ]_vars

(***************************************************************************)
(* Properties of seeding (SpecSeed).                                       *)
(***************************************************************************)
SeedNames == {DefaultPrompts[k].name : k \in DOMAIN DefaultPrompts}
TemplatesNamed(table, name) == {i \in DOMAIN table : table[i] = name}

\* C21: a run of initialize_default_prompts creates no template for a seed
\* whose exact name a template already has and changes no existing template;
\* a run that follows a run changes nothing; and a run on a registry with at
\* most one template per seed name leaves exactly one template per seed name.
C21_SeedingIsIdempotent ==
    [][Seed =>
          /\ \A i \in DOMAIN prompts :
                i \in DOMAIN prompts' /\ prompts'[i] = prompts[i] /\ names'[i] = names[i]
          /\ \A n \in SeedNames :
                TemplatesNamed(names, n) # {}
                    => TemplatesNamed(names', n) = TemplatesNamed(names, n)
          /\ out.op = "initialize_default_prompts" => UNCHANGED <<prompts, names>>
          /\ (\A n \in SeedNames : Cardinality(TemplatesNamed(names, n)) <= 1)
                => /\ out'.status = 200
                   /\ \A n \in SeedNames : Cardinality(TemplatesNamed(names', n)) = 1
      ]_vars

\* a run has completed the seeds around a template that a client had named
\* "Default Categorization": that template is the only one of its name
C21_Witness ==
    /\ out = Resp("initialize_default_prompts", 200)
    /\ 1 \in DOMAIN names
    /\ names[1] = "Default Categorization"
    /\ prompts[1].category = "summary"
    /\ \A n \in SeedNames : Cardinality(TemplatesNamed(names, n)) = 1

(***************************************************************************)
(* Version counter of a template (SpecVersion).                            *)
(***************************************************************************)
\* C22: with one request at a time, every successful update_prompt stores
\* the template with its version raised by exactly 1 over the value it had
\* when the call began, whatever fields the update carries; no step lowers
\* a version; and update_prompt on an id that does not exist answers
\* "not found" and changes no template.
C22_UpdateRaisesVersionByOne ==
    [][\A r \in Requests :
          /\ (pc[r] = "update_commit" /\ pc'[r] = "idle")
                => /\ out' = Resp("update_prompt", 200)
                   /\ req[r].loaded.version = prompts[req[r].id].version
                   /\ prompts'[req[r].id].version = req[r].loaded.version + 1
          /\ \A id \in PromptIds, ver \in VersionInputs :
                (id \in DOMAIN prompts /\ UpdateWithVersion(r, 1, id, ver))
                    => /\ out' = Resp("update_prompt", 200)
                       /\ prompts'[id].version = prompts[id].version + 1
          /\ \A id \in PromptIds, act \in ActiveInputs, cat \in CategoryInputs :
                (id \notin DOMAIN prompts /\ UpdateBegin(r, 1, id, act, cat))
                    => /\ out' = Resp("update_prompt", 404)
                       /\ UNCHANGED <<prompts, pc, req>>
          /\ \A i \in DOMAIN prompts \cap DOMAIN prompts' :
                prompts'[i].version >= prompts[i].version
      ]_vars

(***************************************************************************)
(* Further properties of the in-memory session registry (SpecSession).     *)
(***************************************************************************)
\* C23: logout always succeeds; for a token that is not in the registry it
\* leaves the registry unchanged (so a second logout of a token changes
\* nothing); and it removes no entry but that of the token it names, every
\* other session, of the same user or another, staying as it was.
C23_LogoutIdempotentAndLocal ==
    [][out'.op = "logout" => \A h \in Headers :
          Logout(h) =>
              LET t == IF h = NoHeader THEN UnknownToken ELSE ExtractToken(h)
              IN  /\ out'.status = 200
                  /\ t \notin DOMAIN sessions_db => sessions_db' = sessions_db
                  /\ DOMAIN sessions_db \ {t} \subseteq DOMAIN sessions_db'
                  /\ DOMAIN sessions_db' \subseteq DOMAIN sessions_db
                  /\ \A u \in DOMAIN sessions_db' : sessions_db'[u] = sessions_db[u]
                  /\ (h # NoHeader /\ StartsWithBearer(h)) => t \notin DOMAIN sessions_db'
                  /\ UNCHANGED <<users_db, issued, nextToken>>
      ]_vars

\* a user's session has been logged out while another session of the same
\* user is still in the registry
C23_Witness ==
    /\ out.op = "logout"
    /\ out.token \in DOMAIN issued
    /\ out.token \notin DOMAIN sessions_db
    /\ \E u \in DOMAIN sessions_db : issued[u] = issued[out.token]

\* C24: verify_token never modifies the registry: after the lookup of an
\* expired token its entry is still there.  The set of registry keys loses
\* a key only in a logout and gains one only in a register, login or
\* refresh, each successful one of which adds a key.
C24_VerifyTokenKeepsRegistry ==
    [][/\ out'.op = "verify_token" => sessions_db' = sessions_db
       /\ ~(DOMAIN sessions_db \subseteq DOMAIN sessions_db') => out'.op = "logout"
       /\ ~(DOMAIN sessions_db' \subseteq DOMAIN sessions_db)
             => out'.op \in {"register", "login", "refresh"}
       /\ (out'.op \in {"register", "login", "refresh"} /\ out'.status = 200
             /\ nextToken' # nextToken)
             => /\ DOMAIN sessions_db' = DOMAIN sessions_db \cup {out'.token}
                /\ out'.token \notin DOMAIN sessions_db
      ]_vars

\* an expired token has been looked up: no session is returned and its
\* entry is still in the registry
C24_Witness ==
    /\ out.op = "verify_token"
    /\ out.token \in DOMAIN sessions_db
    /\ now - sessions_db[out.token].created_at >= SessionTTL
    /\ out.user = NoSession.user_id

\* the header names a token whose session is in the registry and younger
\* than the lifetime of a session
NamesFreshSession(h) ==
    /\ h # NoHeader
    /\ ExtractToken(h) \in DOMAIN sessions_db
    /\ now - sessions_db[ExtractToken(h)].created_at < SessionTTL

\* C30: refresh with a valid token t adds exactly one registry entry, for
\* the user of t and created now, and leaves every existing entry, t
\* included, unchanged; with a missing, unknown or expired token it answers
\* 401 and leaves the registry unchanged.
C30_RefreshAddsOneEntry ==
    [][out'.op = "refresh" => \A h \in Headers :
          RefreshToken(h) =>
              IF NamesFreshSession(h)
              THEN /\ out'.status = 200
                   /\ out'.token \notin DOMAIN sessions_db
                   /\ out'.token \notin DOMAIN issued
                   /\ DOMAIN sessions_db' = DOMAIN sessions_db \cup {out'.token}
                   /\ sessions_db'[out'.token] =
                          [user_id |-> sessions_db[ExtractToken(h)].user_id,
                           created_at |-> now]
                   /\ \A u \in DOMAIN sessions_db : sessions_db'[u] = sessions_db[u]
              ELSE /\ out'.status = 401
                   /\ sessions_db' = sessions_db
      ]_vars

\* a refresh has answered with a new token, and the user has an older
\* session besides it
C30_Witness ==
    /\ out.op = "refresh"
    /\ out.status = 200
    /\ sessions_db[out.token] = [user_id |-> out.user, created_at |-> now]
    /\ \E u \in DOMAIN sessions_db \ {out.token} :
          /\ sessions_db[u].user_id = out.user
          /\ sessions_db[u].created_at < now

(***************************************************************************)
(* Ownership of emails (SpecProtected).                                    *)
(***************************************************************************)
\* C25: the list returned by GET /emails/my-inbox holds only emails whose
\* owning user id is the user of the presented session, for every category,
\* search, sort, limit and offset.
C25_InboxReturnsOwnEmailsOnly ==
    (out.op = "my_inbox" /\ out.status = 200)
        => \A i \in DOMAIN out.result : out.result[i].user_id = UserOwner(out.user)

ActiveOf(table, c) == SelectActiveOf(table, c, 0)

\* Request r commits in this step an update that changes the category of
\* its template and stores it as active (it was active, or the same call
\* activates it).
UpdateMovesActive(r) ==
    /\ pc[r] = "update_commit" /\ pc'[r] = "idle"
    /\ req[r].id \in DOMAIN prompts
    /\ prompts'[req[r].id].category # prompts[req[r].id].category
    /\ prompts'[req[r].id].is_active

\* C26: an update_prompt that moves an active template, or activates and
\* moves a template in the same call, into category D leaves D with at most
\* one active template (every category having at most one before the call's
\* commit).
C26_MoveKeepsOneActiveInDestination ==
    [][\A r \in Requests :
          (UpdateMovesActive(r) /\ AtMostOneActive)
              => Cardinality(ActiveOf(prompts', prompts'[req[r].id].category)) <= 1
      ]_vars

\* Request r's update fails in this step, at its final commit: the session
\* is rolled back and the exception raised.
UpdateFailsAtCommit(r) ==
    /\ pc[r] = "update_commit" /\ pc'[r] = "idle"
    /\ out'.op = "update_prompt" /\ out'.status = 500

\* C27: when update_prompt fails after it has started, the is_active flags
\* of the other templates of the category are as before the call: the
\* templates the call found active are still active in the committed store.
C27_FailedUpdateLeavesRegistry ==
    [][\A r \in Requests :
          UpdateFailsAtCommit(r)
              => \A i \in req[r].peers :
                     i \in DOMAIN prompts' => prompts'[i].is_active
      ]_vars

(***************************************************************************)
(* Login of the persistent accounts (SpecLogin).                           *)
(***************************************************************************)
\* the user a login with these credentials is served for, if any: the user
\* exists, the password matches, is_active and is_verified are true
Admitted(email, password) ==
    {i \in UserByEmail(email) :
        /\ email # "" /\ password # ""
        /\ check_password(auth_users[i], password)
        /\ auth_users[i].is_active
        /\ auth_users[i].is_verified}

\* user i has consumed a verification token
ConsumedVerification(i) ==
    \E t \in issuedVerify : t.user_id = i /\ <<"verify", t>> \in retired

\* C29: login issues an access token only when the user exists, the
\* password matches, is_active and is_verified are true, and then stamps
\* last_login; in every other case no token is returned and last_login is
\* unchanged; a user who has not consumed a verification token has never
\* logged in.
C29_LoginOnlyForVerifiedActiveUsers ==
    /\ [][\A e \in LoginEmails, p \in LoginPasswords :
             AuthLogin(e, p) =>
                 IF Admitted(e, p) # {}
                 THEN \E i \in Admitted(e, p) :
                          /\ out'.status = 200
                          /\ out'.access_token = AccessToken(i)
                          /\ last_login' = [last_login EXCEPT ![i] = <<now>>]
                 ELSE /\ out'.status # 200
                      /\ out'.access_token = NoAccess
                      /\ last_login' = last_login
        ]_vars
    /\ [](\A i \in AuthIds : Present(last_login[i]) => ConsumedVerification(i))

\* a verified user has logged in with the password set by a reset
C29_Witness ==
    /\ out.op = "auth_login" /\ out.status = 200
    /\ out.password \in NewPasswords
    /\ \E i \in AuthIds : Present(last_login[i])

====
